---- MODULE Spec2Model ----
(***************************************************************************)
(* A model of the reasoning core of src/app/api/query/route.ts             *)
(* (UltimateDeepSearchEngine and its POST endpoint) and of the aggregator  *)
(* of external providers of the same file (MultiDomainAggregator), and of   *)
(* the fact checker of IndependentWebSearch and the conversation flow of   *)
(* ConversationalAI in src/unnamed/part_003.                               *)
(*                                                                         *)
(* Conventions.                                                            *)
(*  - A JavaScript string is a sequence of one-character strings, so that  *)
(*    includes(), split(), substring() and the regular expressions are     *)
(*    computed character by character.                                     *)
(*  - Edge weights and confidences are hundredths (95 is 0.95).  A path    *)
(*    confidence is a multiple of 1/Unit (Unit is 1.0); products are       *)
(*    rounded down to that grid.  The sample data keep every product that  *)
(*    is compared with a threshold away from the threshold.                *)
(***************************************************************************)
EXTENDS Integers, Sequences, FiniteSets, TLC

VARIABLES
    graph,          \* comprehensiveKnowledgeGraph: <<[subject, relations]>> in key order
    conceptGraph,   \* this.conceptGraph: entity -> neighbours in insertion order
    similarity,     \* the vector similarities of a query with words and each document
    startEntities,  \* deepGraphTraversal: argument
    maxDepth,       \* deepGraphTraversal: argument
    minConfidence,  \* deepGraphTraversal: argument (hundredths)
    tpc,            \* deepGraphTraversal: "idle", "run", "done" or "threw"
    seedIdx,        \* index of the next seed of the for-loop at line 1001
    stack,          \* the activation records of traverse(), innermost last
    visited,        \* const visited = new Map<string, number>()
    path,           \* const path: GraphTriple[]
    result,         \* the value deepGraphTraversal returned
    request,        \* the request being served: a POST body or a call of query()
    qpc,            \* query(): "idle", the stage about to run, or "done"
    question,       \* query(): argument, a JavaScript value [type, value]
    options,        \* query(): argument, the option names present and their numbers
    docs,           \* query(): const docs
    entities,       \* query(): const entities
    graphPath,      \* query(): let graphPath
    rulesFired,     \* query(): const rulesFired
    answer,         \* query(): const answer
    trace,          \* query(): const trace (the timestamps are left out)
    stages,         \* the stages that have run for the current request
    response,       \* what the caller received: [status, error]
    prev,           \* a completed earlier call, remembered: [valid, input, output]
    apc,            \* handleQuery(): "idle", "probing", "searching" or "returned"
    aquery,         \* handleQuery(): argument, the characters of the query
    hasKey,         \* process.env.OPENWEATHER_API_KEY is set
    probeIdx,       \* probeConnectivity(): the index of the provider probed next
    probeFetch,     \* probeConnectivity(): "none", or "pending" while its fetch is awaited
    available,      \* probeConnectivity(): const available
    apis,           \* handleQuery(): const apis
    calls,          \* queryAPIs(): provider -> the state of its search promise
    settled,        \* the providers whose search promise has settled, in that order
    consolidated,   \* what handleQuery returned: [answer, sources, inferenceChains, trace]
    aprev,          \* a completed earlier handleQuery, remembered
    wpc,            \* search(): "idle", "verify", "synthesize" or "done"
    wquery,         \* search(): argument, the characters of the query
    uniqueResults,  \* search(): const uniqueResults, each [url, snippet, recent]
    claims,         \* performFactCheck(): const claims
    claimIdx,       \* performFactCheck(): the index of the claim being verified
    resultIdx,      \* verifyClaim(): the index of the result inspected next
    supportingSources, \* verifyClaim(): const supportingSources
    disputingSources,  \* verifyClaim(): const disputingSources
    factCheck,      \* search(): const factCheck
    synthesizedAnswer, \* search(): const synthesizedAnswer, the pieces appended
    conversationMemory, \* ConversationalAI.conversationMemory: key -> context object
    contexts,       \* the ConversationContext objects created so far
    inFlight,       \* the generateResponse calls suspended at their await
    replies         \* per conversation, the phases returned to the caller, in order

engineVars == <<graph, conceptGraph, similarity>>

traversalVars == <<startEntities, maxDepth, minConfidence, tpc, seedIdx, stack, visited,
                   path, result>>

queryVars == <<request, qpc, question, options, docs, entities, graphPath, rulesFired,
               answer, trace, stages, response>>

aggVars == <<apc, aquery, hasKey, probeIdx, probeFetch, available, apis, calls, settled,
             consolidated, aprev>>

webVars == <<wpc, wquery, uniqueResults, claims, claimIdx, resultIdx, supportingSources,
             disputingSources, factCheck, synthesizedAnswer>>

chatVars == <<conversationMemory, contexts, inFlight, replies>>

sideVars == <<webVars, chatVars>>

vars == <<graph, conceptGraph, similarity, startEntities, maxDepth, minConfidence, tpc,
          seedIdx, stack, visited, path, result, request, qpc, question, options, docs,
          entities, graphPath, rulesFired, answer, trace, stages, response, prev, apc,
          aquery, hasKey, probeIdx, probeFetch, available, apis, calls, settled,
          consolidated, aprev, wpc, wquery, uniqueResults, claims, claimIdx, resultIdx,
          supportingSources, disputingSources, factCheck, synthesizedAnswer,
          conversationMemory, contexts, inFlight, replies>>

---------------------------------------------------------------------------
(* Numbers *)

Unit == 10 ^ 7
Pct == Unit \div 100

Max2(a, b) == IF a >= b THEN a ELSE b
Min2(a, b) == IF a <= b THEN a ELSE b

---------------------------------------------------------------------------
(* Arrays *)

\* the elements of the set of indices S, ascending
Ascending(S) ==
    [r \in 1..Cardinality(S) |-> CHOOSE i \in S : Cardinality({j \in S : j < i}) = r - 1]

\* Array.prototype.sort((a, b) => key(b) - key(a)): stable, descending by key
\* (keys[i] is the key of s[i]; the rank table is bound once, as a value)
SortDescBy(s, keys) ==
    CHOOSE out \in
        { [r \in 1..Len(s) |-> s[CHOOSE i \in DOMAIN s : ranks[i] = r]] :
          ranks \in { [i \in DOMAIN s |->
                        Cardinality({j \in DOMAIN s :
                            keys[j] > keys[i] \/ (keys[j] = keys[i] /\ j < i)}) + 1] } } : TRUE

\* Array.prototype.slice(0, n) for n >= 0
Slice0(s, n) == SubSeq(s, 1, IF n < Len(s) THEN n ELSE Len(s))

\* Array.prototype.slice(0, n) for any integer n: a negative n counts from the end
SliceTo(s, n) == IF n >= 0 THEN Slice0(s, n) ELSE Slice0(s, Max2(Len(s) + n, 0))

---------------------------------------------------------------------------
(* Strings *)

UpperLetters ==
    <<"A","B","C","D","E","F","G","H","I","J","K","L","M",
      "N","O","P","Q","R","S","T","U","V","W","X","Y","Z">>

LowerLetters ==
    <<"a","b","c","d","e","f","g","h","i","j","k","l","m",
      "n","o","p","q","r","s","t","u","v","w","x","y","z">>

Digits == <<"0","1","2","3","4","5","6","7","8","9">>

Range(s) == {s[i] : i \in DOMAIN s}

UpperSet == Range(UpperLetters)
LowerSet == Range(LowerLetters)
DigitSet == Range(Digits)

IsUpper(c) == c \in UpperSet
IsLower(c) == c \in LowerSet
IsLetter(c) == IsUpper(c) \/ IsLower(c)
IsDigit(c) == c \in DigitSet

\* \w and \s of a regular expression
IsWordChar(c) == IsLetter(c) \/ IsDigit(c) \/ c = "_"
IsSpace(c) == c \in {" ", "\t", "\n"}

LowerOf == [c \in UpperSet |->
              LowerLetters[CHOOSE i \in DOMAIN UpperLetters : UpperLetters[i] = c]]
UpperOf == [c \in LowerSet |->
              UpperLetters[CHOOSE i \in DOMAIN LowerLetters : LowerLetters[i] = c]]

LowerChar(c) == IF IsUpper(c) THEN LowerOf[c] ELSE c
UpperChar(c) == IF IsLower(c) THEN UpperOf[c] ELSE c

\* String.prototype.toLowerCase
ToLowerCase(s) == [i \in DOMAIN s |-> LowerChar(s[i])]

\* String.prototype.includes
Includes(s, sub) ==
    \/ sub = <<>>
    \/ \E i \in 0..(Len(s) - Len(sub)) :
          s[i + 1] = sub[1] /\ SubSeq(s, i + 1, i + Len(sub)) = sub

\* String.prototype.substring(0, n)
Substring0(s, n) == SubSeq(s, 1, IF n < Len(s) THEN n ELSE Len(s))

\* Array.prototype.join(sep)
RECURSIVE Join(_, _)
Join(parts, sep) ==
    IF parts = <<>> THEN <<>>
    ELSE IF Len(parts) = 1 THEN parts[1]
    ELSE parts[1] \o sep \o Join(Tail(parts), sep)

\* String.prototype.split(/\s+/): the pieces between the maximal runs of white space,
\* the empty pieces at either end included
RECURSIVE SplitFrom(_, _, _, _)
SplitFrom(s, i, piece, inSeparator) ==
    IF i > Len(s) THEN <<piece>>
    ELSE IF IsSpace(s[i])
         THEN IF inSeparator THEN SplitFrom(s, i + 1, piece, TRUE)
              ELSE <<piece>> \o SplitFrom(s, i + 1, <<>>, TRUE)
         ELSE SplitFrom(s, i + 1, Append(piece, s[i]), FALSE)

SplitWhitespace(s) == SplitFrom(s, 1, <<>>, FALSE)

\* Array.from(new Set(list)): the first occurrence of each element, in order
RECURSIVE Distinct(_)
Distinct(list) ==
    IF list = <<>> THEN <<>>
    ELSE LET init == Distinct(SubSeq(list, 1, Len(list) - 1))
             last == list[Len(list)]
         IN  IF last \in Range(init) THEN init ELSE Append(init, last)

---------------------------------------------------------------------------
(* The relationship graph *)

Rel(t, p, w, c, s) ==
    [target |-> t, predicate |-> p, weight |-> w, confidence |-> c, source |-> s]

Triple(s, p, o, w, c, src) ==
    [subject |-> s, predicate |-> p, object |-> o, weight |-> w, confidence |-> c,
     source |-> src]

\* two entries of comprehensiveKnowledgeGraph, as written in the source
KG_GHChain ==
    [subject |-> <<"G","H","C","h","a","i","n">>, relations |-> <<
        Rel(<<"G","H"," ","G","O","L","D">>, <<"p","o","w","e","r","s">>, 100, 100, "ecosystem"),
        Rel(<<"A","f","r","i","c","a">>, <<"t","a","r","g","e","t","s">>, 95, 98, "geographic"),
        Rel(<<"D","e","F","i">>, <<"e","n","a","b","l","e","s">>, 85, 90, "financial"),
        Rel(<<"T","r","i","b","a","l"," ","G","o","v","e","r","n","a","n","c","e">>, <<"i","m","p","l","e","m","e","n","t","s">>, 80, 85, "social")
    >>]

KG_GHGOLD ==
    [subject |-> <<"G","H"," ","G","O","L","D">>, relations |-> <<
        Rel(<<"S","t","a","k","i","n","g">>, <<"e","n","a","b","l","e","s">>, 90, 95, "tokenomics"),
        Rel(<<"G","o","v","e","r","n","a","n","c","e">>, <<"p","r","o","v","i","d","e","s">>, 85, 90, "political"),
        Rel(<<"G","O","L","D","V","A","U","L","T">>, <<"t","r","a","d","e","d","_","o","n">>, 88, 92, "exchange"),
        Rel(<<"T","r","a","n","s","a","c","t","i","o","n"," ","F","e","e","s">>, <<"r","e","d","u","c","e","s">>, 75, 80, "economic")
    >>]

KnowledgeFragment == <<KG_GHChain, KG_GHGOLD>>

N_A == <<"A">>
N_B == <<"B">>
N_C == <<"C">>
N_D == <<"D">>
P_next == <<"n","e","x","t">>
P_uses == <<"u","s","e","s">>

\* a cycle of weight-1, confidence-1 edges
Cycle3 ==
    << [subject |-> N_A, relations |-> <<Rel(N_B, P_next, 100, 100, "sample")>>],
       [subject |-> N_B, relations |-> <<Rel(N_C, P_next, 100, 100, "sample")>>],
       [subject |-> N_C, relations |-> <<Rel(N_A, P_next, 100, 100, "sample")>>] >>

\* C is reached first through B (two strong hops) and then directly (one weak hop)
Diamond ==
    << [subject |-> N_A, relations |-> <<Rel(N_C, P_uses, 100, 75, "sample"),
                                         Rel(N_B, P_next, 100, 100, "sample")>>],
       [subject |-> N_B, relations |-> <<Rel(N_C, P_next, 100, 100, "sample")>>],
       [subject |-> N_C, relations |-> <<Rel(N_D, P_next, 100, 100, "sample")>>] >>

\* a hub with seven edges, not in ranking order, one of them weak, two of them tied;
\* its neighbours have edges of their own, so a walk of depth 2 finds more than
\* twelve distinct triples
N_H == <<"H">>
P_to == <<"t","o">>
Star ==
    << [subject |-> N_H, relations |-> <<Rel(<<"1">>, P_to, 50, 90, "sample"),
                                         Rel(<<"2">>, P_to, 100, 100, "sample"),
                                         Rel(<<"3">>, P_to, 90, 75, "sample"),
                                         Rel(<<"4">>, P_to, 80, 100, "sample"),
                                         Rel(<<"5">>, P_to, 100, 80, "sample"),
                                         Rel(<<"6">>, P_to, 60, 100, "sample"),
                                         Rel(<<"7">>, P_to, 40, 100, "sample")>>],
       [subject |-> <<"2">>, relations |-> <<Rel(<<"a">>, P_to, 90, 100, "sample"),
                                             Rel(<<"b">>, P_to, 100, 100, "sample")>>],
       [subject |-> <<"3">>, relations |-> <<Rel(<<"c">>, P_to, 100, 100, "sample")>>],
       [subject |-> <<"4">>, relations |-> <<Rel(<<"d">>, P_to, 100, 100, "sample"),
                                             Rel(<<"e">>, P_to, 100, 90, "sample")>>],
       [subject |-> <<"5">>, relations |-> <<Rel(<<"f">>, P_to, 100, 100, "sample")>>],
       [subject |-> <<"6">>, relations |-> <<Rel(<<"g">>, P_to, 100, 100, "sample"),
                                             Rel(<<"h">>, P_to, 70, 100, "sample")>>] >>

HasKey(g, entity) == \E i \in DOMAIN g : g[i].subject = entity

\* comprehensiveKnowledgeGraph[entity], for an entity that is a key
RelationsOf(g, entity) == g[CHOOSE i \in DOMAIN g : g[i].subject = entity].relations

\* the (subject, target) pairs in the order buildConceptGraph meets them
RECURSIVE EdgePairs(_)
EdgePairs(g) ==
    IF g = <<>> THEN <<>>
    ELSE [i \in DOMAIN Head(g).relations |->
             <<Head(g).subject, Head(g).relations[i].target>>] \o EdgePairs(Tail(g))

\* Set.prototype.add: insertion order kept, no duplicate
SetAdd(s, x) == IF \E i \in DOMAIN s : s[i] = x THEN s ELSE Append(s, x)

\* conceptGraph.get(k).add(v), the set created when k is new
MapAdd(m, k, v) ==
    [x \in DOMAIN m \cup {k} |->
        IF x = k THEN SetAdd(IF k \in DOMAIN m THEN m[k] ELSE <<>>, v) ELSE m[x]]

RECURSIVE AddPairs(_, _)
AddPairs(m, pairs) ==
    IF pairs = <<>> THEN m
    ELSE AddPairs(MapAdd(MapAdd(m, Head(pairs)[1], Head(pairs)[2]),
                         Head(pairs)[2], Head(pairs)[1]),
                  Tail(pairs))

EmptyMap == [x \in {} |-> 0]

\* buildConceptGraph(): every subject gets a set; every edge is added both ways
BuildConceptGraph(g) ==
    AddPairs([x \in {g[i].subject : i \in DOMAIN g} |-> <<>>], EdgePairs(g))

---------------------------------------------------------------------------
(* deepGraphTraversal *)

MaxDepthBound == 5
MaxStack == MaxDepthBound + 2
SampleMinConfidence == {0, 70, 80, 97}

BranchLimit == 5
ConceptLimit == 3
ResultCap == 12
DecayTenths == 9
ConceptTenths == 8
ConceptWeight == 60

Top == stack[Len(stack)]
Pop == SubSeq(stack, 1, Len(stack) - 1)

Frame(entity, currentDepth, pathConfidence) ==
    [entity |-> entity, currentDepth |-> currentDepth, pathConfidence |-> pathConfidence,
     sortedRelations |-> <<>>, idx |-> 0, pc |-> "enter"]

\* the two early returns of traverse()
ShouldReturnDecayOnly(entity, currentDepth, pathConfidence) ==
    pathConfidence < minConfidence * Pct

ShouldReturnUnvisitedOnly(entity, currentDepth, pathConfidence) ==
    \/ currentDepth >= maxDepth
    \/ pathConfidence < minConfidence * Pct

ShouldReturnAnyConfidence(entity, currentDepth, pathConfidence) ==
    \/ currentDepth >= maxDepth
    \/ (entity \in DOMAIN visited /\ visited[entity] <= currentDepth)

ShouldReturn(entity, currentDepth, pathConfidence) ==
    \/ currentDepth >= maxDepth
    \/ pathConfidence < minConfidence * Pct
    \/ (entity \in DOMAIN visited /\ visited[entity] <= currentDepth)

\* names every object literal inherits from Object.prototype (a few of them)
InheritedNames ==
    { <<"c","o","n","s","t","r","u","c","t","o","r">>,
      <<"t","o","S","t","r","i","n","g">>,
      <<"_","_","p","r","o","t","o","_","_">> }

\* const relations = comprehensiveKnowledgeGraph[entity]: the array of an own key,
\* an inherited member of Object.prototype, or undefined
Lookup(g, entity) ==
    IF HasKey(g, entity) THEN "array"
    ELSE IF entity \in InheritedNames THEN "inherited"
    ELSE "undefined"

\* if (relations) relations.filter(...): an inherited member is truthy and has no
\* filter method, so the call raises a TypeError
FilterRaises(entity) == Lookup(graph, entity) = "inherited"

SortedRelationsFirstFive(entity) ==
    IF ~HasKey(graph, entity) THEN <<>>
    ELSE Slice0(SelectSeq(RelationsOf(graph, entity),
                          LAMBDA rel : rel.confidence >= minConfidence), BranchLimit)

\* relations.filter(confidence >= threshold).sort(weight * confidence desc).slice(0, 5)
SortedRelations(entity) ==
    IF ~HasKey(graph, entity) THEN <<>>
    ELSE CHOOSE out \in
            { Slice0(SortDescBy(kept, [i \in DOMAIN kept |-> kept[i].weight * kept[i].confidence]),
                     BranchLimit) :
              kept \in { SelectSeq(RelationsOf(graph, entity),
                                   LAMBDA rel : rel.confidence >= minConfidence) } } : TRUE

\* const edgeConfidence = relation.confidence * pathConfidence
EdgeConfidence(relation, pathConfidence) == (relation.confidence * pathConfidence) \div 100

\* edgeConfidence * 0.9
Undecayed(edgeConfidence) == edgeConfidence
Decayed(edgeConfidence) == (edgeConfidence * DecayTenths) \div 10

ConceptTriplesAboveThreshold(entity, currentDepth, pathConfidence) ==
    IF entity \notin DOMAIN conceptGraph
       \/ (pathConfidence * ConceptTenths) \div 10 < minConfidence * Pct
    THEN <<>>
    ELSE LET targets == SelectSeq(Slice0(conceptGraph[entity], ConceptLimit),
                 LAMBDA target : \/ target \notin DOMAIN visited
                                 \/ visited[target] > currentDepth + 1)
         IN  [i \in DOMAIN targets |->
                 Triple(entity, <<"c","o","n","c","e","p","t","u","a","l","l","y","_",
                                  "r","e","l","a","t","e","d","_","t","o">>,
                        targets[i], ConceptWeight,
                        (pathConfidence * ConceptTenths) \div 10, "concept_graph")]

\* the triples the concept-graph loop pushes for an expanded entity
ConceptTriples(entity, currentDepth, pathConfidence) ==
    IF entity \notin DOMAIN conceptGraph THEN <<>>
    ELSE LET targets == SelectSeq(Slice0(conceptGraph[entity], ConceptLimit),
                 LAMBDA target : \/ target \notin DOMAIN visited
                                 \/ visited[target] > currentDepth + 1)
         IN  [i \in DOMAIN targets |->
                 Triple(entity, <<"c","o","n","c","e","p","t","u","a","l","l","y","_",
                                  "r","e","l","a","t","e","d","_","t","o">>,
                        targets[i], ConceptWeight,
                        (pathConfidence * ConceptTenths) \div 10, "concept_graph")]

\* `${triple.subject}-${triple.predicate}-${triple.object}`
TripleKey(t) == t.subject \o <<"-">> \o t.predicate \o <<"-">> \o t.object

\* Array.from(new Map(path.map(t => [key, t])).values()): a key keeps the place of
\* its first triple and the value of its last
UniquePath(p) ==
    CHOOSE out \in
        { [r \in DOMAIN firsts |->
              p[CHOOSE j \in DOMAIN p :
                   /\ keys[j] = keys[firsts[r]]
                   /\ \A k \in (j + 1)..Len(p) : keys[k] # keys[j]]] :
          keys \in { [i \in DOMAIN p |-> TripleKey(p[i])] },
          firsts \in { Ascending({i \in DOMAIN p :
                                    \A j \in 1..(i - 1) :
                                        TripleKey(p[j]) # TripleKey(p[i])}) } } : TRUE

RankedPathWalkOrder(p) == Slice0(UniquePath(p), ResultCap)

\* uniquePath.sort(weight * confidence desc).slice(0, 12)
RankedPath(p) ==
    CHOOSE out \in
        { Slice0(SortDescBy(u, [i \in DOMAIN u |-> u[i].weight * u[i].confidence]),
                 ResultCap) :
          u \in { UniquePath(p) } } : TRUE

\* const visited = new Map(): local to one call
StaleVisited == visited

FreshVisited == EmptyMap

NoPrev == [valid |-> FALSE, input |-> 0, output |-> <<>>]

\* the body of deepGraphTraversal up to the seed loop
StartTraversal(seeds, depth, conf) ==
    /\ startEntities' = seeds
    /\ maxDepth' = depth
    /\ minConfidence' = conf
    /\ tpc' = "run"
    /\ seedIdx' = 1
    /\ stack' = <<>>
    /\ visited' = FreshVisited
    /\ path' = <<>>
    /\ result' = <<>>

\* a caller invokes deepGraphTraversal on the same seeds and depth
T_Call(conf) ==
    /\ tpc \in {"idle", "done", "threw"}
    /\ StartTraversal(startEntities, maxDepth, conf)
    /\ prev' = IF tpc = "done"
               THEN [valid |-> TRUE, input |-> minConfidence, output |-> result]
               ELSE prev
    /\ UNCHANGED <<engineVars, sideVars, aggVars, queryVars>>

\* for (const entity of startEntities) traverse(entity, 0, 1.0)
T_NextSeed ==
    /\ tpc = "run" /\ stack = <<>> /\ seedIdx <= Len(startEntities)
    /\ stack' = <<Frame(startEntities[seedIdx], 0, Unit)>>
    /\ seedIdx' = seedIdx + 1
    /\ UNCHANGED <<engineVars, sideVars, aggVars, startEntities, maxDepth, minConfidence, tpc,
                   visited, path, result, queryVars, prev>>

\* entry of traverse(): return early, or mark the entity and rank its relations;
\* a TypeError raised by the ranking unwinds every activation and the call
T_Enter ==
    /\ tpc = "run" /\ stack # <<>> /\ Top.pc = "enter"
    /\ IF ShouldReturn(Top.entity, Top.currentDepth, Top.pathConfidence)
       THEN /\ stack' = Pop
            /\ UNCHANGED <<visited, tpc>>
       ELSE /\ visited' = [x \in DOMAIN visited \cup {Top.entity} |->
                              IF x = Top.entity THEN Top.currentDepth ELSE visited[x]]
            /\ IF FilterRaises(Top.entity)
               THEN /\ stack' = <<>>
                    /\ tpc' = "threw"
               ELSE /\ stack' = [stack EXCEPT ![Len(stack)] =
                                    [@ EXCEPT !.pc = "loop", !.idx = 1,
                                              !.sortedRelations = SortedRelations(Top.entity)]]
                    /\ UNCHANGED tpc
    /\ UNCHANGED <<engineVars, sideVars, aggVars, startEntities, maxDepth, minConfidence,
                   seedIdx, path, result, queryVars, prev>>

\* one iteration of the relation loop: push the triple, recurse into the target
T_Relation ==
    /\ tpc = "run" /\ stack # <<>> /\ Top.pc = "loop"
    /\ Top.idx <= Len(Top.sortedRelations)
    /\ Len(stack) < MaxStack
    /\ LET relation == Top.sortedRelations[Top.idx]
           edgeConfidence == EdgeConfidence(relation, Top.pathConfidence)
       IN  /\ path' = Append(path, Triple(Top.entity, relation.predicate, relation.target,
                                          relation.weight, edgeConfidence, relation.source))
           /\ stack' = Append([stack EXCEPT ![Len(stack)].idx = @ + 1],
                              Frame(relation.target, Top.currentDepth + 1,
                                    Decayed(edgeConfidence)))
    /\ UNCHANGED <<engineVars, sideVars, aggVars, startEntities, maxDepth, minConfidence, tpc,
                   seedIdx, visited, result, queryVars, prev>>

\* after the relation loop: the concept-graph loop, then traverse() returns
T_Concept ==
    /\ tpc = "run" /\ stack # <<>> /\ Top.pc = "loop"
    /\ Top.idx > Len(Top.sortedRelations)
    /\ path' = path \o ConceptTriples(Top.entity, Top.currentDepth, Top.pathConfidence)
    /\ stack' = Pop
    /\ UNCHANGED <<engineVars, sideVars, aggVars, startEntities, maxDepth, minConfidence, tpc,
                   seedIdx, visited, result, queryVars, prev>>

\* the seed loop is over: deduplicate, rank, cut, return
T_Finish ==
    /\ tpc = "run" /\ stack = <<>> /\ seedIdx > Len(startEntities)
    /\ result' = RankedPath(path)
    /\ tpc' = "done"
    /\ UNCHANGED <<engineVars, sideVars, aggVars, startEntities, maxDepth, minConfidence,
                   seedIdx, stack, visited, path, queryVars, prev>>

TraverseStep == T_NextSeed \/ T_Enter \/ T_Relation \/ T_Concept \/ T_Finish

---------------------------------------------------------------------------
(* The corpus *)

\* six entries of comprehensiveKnowledgeBase, as written in the source (the title
\* enters the embedding only and is left out)
Doc_ghchain ==
    [id |-> "ghchain-ecosystem",
     content |->
        <<"G","H","C","h","a","i","n"," ","i","s"," ","a"," ","r","e","v","o","l","u","t","i",
          "o","n","a","r","y"," ","b","l","o","c","k","c","h","a","i","n"," ","e","c","o","s",
          "y","s","t","e","m"," ","s","p","e","c","i","f","i","c","a","l","l","y"," ","d","e",
          "s","i","g","n","e","d"," ","f","o","r"," ","A","f","r","i","c","a","n"," ","f","i",
          "n","a","n","c","i","a","l"," ","i","n","c","l","u","s","i","o","n"," ","a","n","d",
          " ","e","c","o","n","o","m","i","c"," ","e","m","p","o","w","e","r","m","e","n","t",
          "."," ","T","h","e"," ","p","l","a","t","f","o","r","m"," ","i","s"," ","b","u","i",
          "l","t"," ","o","n"," ","p","r","i","n","c","i","p","l","e","s"," ","o","f"," ","c",
          "o","m","m","u","n","i","t","y"," ","g","o","v","e","r","n","a","n","c","e"," ","t",
          "h","r","o","u","g","h"," ","t","r","i","b","a","l"," ","c","o","n","s","e","n","s",
          "u","s"," ","m","e","c","h","a","n","i","s","m","s",","," ","p","r","o","v","i","d",
          "i","n","g"," ","r","o","b","u","s","t"," ","i","n","f","r","a","s","t","r","u","c",
          "t","u","r","e"," ","f","o","r"," ","d","e","c","e","n","t","r","a","l","i","z","e",
          "d"," ","f","i","n","a","n","c","e"," ","a","p","p","l","i","c","a","t","i","o","n",
          "s",","," ","c","r","o","s","s","-","b","o","r","d","e","r"," ","p","a","y","m","e",
          "n","t","s",","," ","a","n","d"," ","c","o","m","p","r","e","h","e","n","s","i","v",
          "e"," ","d","i","g","i","t","a","l"," ","a","s","s","e","t"," ","m","a","n","a","g",
          "e","m","e","n","t"," ","a","c","r","o","s","s"," ","t","h","e"," ","A","f","r","i",
          "c","a","n"," ","c","o","n","t","i","n","e","n","t"," ","a","n","d"," ","b","e","y",
          "o","n","d",".">>,
     importance |-> "high",
     keywords |-> <<<<"b","l","o","c","k","c","h","a","i","n">>, <<"a","f","r","i","c","a">>, <<"d","e","f","i">>, <<"c","o","n","s","e","n","s","u","s">>>>,
     domain |-> <<"c","r","y","p","t","o","c","u","r","r","e","n","c","y">>]

Doc_ghgold ==
    [id |-> "gh-gold-tokenomics",
     content |->
        <<"G","H"," ","G","O","L","D"," ","(","G","H","G",")"," ","s","e","r","v","e","s"," ",
          "a","s"," ","t","h","e"," ","n","a","t","i","v","e"," ","u","t","i","l","i","t","y",
          " ","t","o","k","e","n"," ","p","o","w","e","r","i","n","g"," ","t","h","e"," ","e",
          "n","t","i","r","e"," ","G","H","C","h","a","i","n"," ","e","c","o","s","y","s","t",
          "e","m"," ","w","i","t","h"," ","a","d","v","a","n","c","e","d"," ","t","o","k","e",
          "n","o","m","i","c","s","."," ","H","o","l","d","e","r","s"," ","c","a","n"," ","s",
          "t","a","k","e"," ","G","H","G"," ","t","o"," ","e","a","r","n"," ","s","u","b","s",
          "t","a","n","t","i","a","l"," ","r","e","w","a","r","d","s",","," ","p","a","r","t",
          "i","c","i","p","a","t","e"," ","i","n"," ","g","o","v","e","r","n","a","n","c","e",
          " ","d","e","c","i","s","i","o","n","s"," ","t","h","r","o","u","g","h"," ","i","n",
          "n","o","v","a","t","i","v","e"," ","t","r","i","b","a","l"," ","v","o","t","i","n",
          "g"," ","m","e","c","h","a","n","i","s","m","s",","," ","p","a","y"," ","t","r","a",
          "n","s","a","c","t","i","o","n"," ","f","e","e","s"," ","a","t"," ","s","i","g","n",
          "i","f","i","c","a","n","t","l","y"," ","d","i","s","c","o","u","n","t","e","d"," ",
          "r","a","t","e","s",","," ","a","n","d"," ","a","c","c","e","s","s"," ","p","r","e",
          "m","i","u","m"," ","D","e","F","i"," ","f","e","a","t","u","r","e","s","."," ","T",
          "h","e"," ","t","o","k","e","n","o","m","i","c","s"," ","m","o","d","e","l"," ","i",
          "n","c","l","u","d","e","s"," ","s","o","p","h","i","s","t","i","c","a","t","e","d",
          " ","d","e","f","l","a","t","i","o","n","a","r","y"," ","m","e","c","h","a","n","i",
          "c","s"," ","t","h","r","o","u","g","h"," ","s","t","r","a","t","e","g","i","c"," ",
          "t","o","k","e","n"," ","b","u","r","n","i","n","g",","," ","c","o","m","p","r","e",
          "h","e","n","s","i","v","e"," ","l","i","q","u","i","d","i","t","y"," ","m","i","n",
          "i","n","g"," ","r","e","w","a","r","d","s",","," ","a","n","d"," ","a"," ","r","o",
          "b","u","s","t"," ","s","t","a","k","i","n","g"," ","s","y","s","t","e","m",".">>,
     importance |-> "high",
     keywords |-> <<<<"t","o","k","e","n">>, <<"s","t","a","k","i","n","g">>, <<"g","o","v","e","r","n","a","n","c","e">>, <<"d","e","f","i">>>>,
     domain |-> <<"c","r","y","p","t","o","c","u","r","r","e","n","c","y">>]

Doc_goldvault ==
    [id |-> "goldvault-exchange-platform",
     content |->
        <<"G","O","L","D","V","A","U","L","T"," ","r","e","p","r","e","s","e","n","t","s"," ",
          "a"," ","l","e","a","d","i","n","g"," ","A","f","r","i","c","a","n"," ","c","r","y",
          "p","t","o","c","u","r","r","e","n","c","y"," ","e","x","c","h","a","n","g","e"," ",
          "p","r","o","v","i","d","i","n","g"," ","s","e","a","m","l","e","s","s",","," ","s",
          "e","c","u","r","e"," ","t","r","a","d","i","n","g"," ","e","x","p","e","r","i","e",
          "n","c","e","s"," ","f","o","r"," ","G","H"," ","G","O","L","D"," ","a","n","d"," ",
          "n","u","m","e","r","o","u","s"," ","o","t","h","e","r"," ","d","i","g","i","t","a",
          "l"," ","a","s","s","e","t","s","."," ","T","h","e"," ","p","l","a","t","f","o","r",
          "m"," ","f","e","a","t","u","r","e","s"," ","h","i","g","h","l","y"," ","c","o","m",
          "p","e","t","i","t","i","v","e"," ","t","r","a","d","i","n","g"," ","f","e","e","s",
          ","," ","m","u","l","t","i","p","l","e"," ","s","o","p","h","i","s","t","i","c","a",
          "t","e","d"," ","K","Y","C"," ","v","e","r","i","f","i","c","a","t","i","o","n"," ",
          "t","i","e","r","s"," ","s","p","e","c","i","f","i","c","a","l","l","y"," ","t","a",
          "i","l","o","r","e","d"," ","f","o","r"," ","A","f","r","i","c","a","n"," ","u","s",
          "e","r","s",","," ","a","n","d"," ","d","i","r","e","c","t"," ","f","i","a","t"," ",
          "o","n","-","r","a","m","p","s"," ","s","u","p","p","o","r","t","i","n","g"," ","m",
          "a","j","o","r"," ","A","f","r","i","c","a","n"," ","c","u","r","r","e","n","c","i",
          "e","s"," ","i","n","c","l","u","d","i","n","g"," ","N","i","g","e","r","i","a","n",
          " ","N","a","i","r","a",","," ","G","h","a","n","a","i","a","n"," ","C","e","d","i",
          ","," ","a","n","d"," ","S","o","u","t","h"," ","A","f","r","i","c","a","n"," ","R",
          "a","n","d",".">>,
     importance |-> "medium",
     keywords |-> <<<<"e","x","c","h","a","n","g","e">>, <<"t","r","a","d","i","n","g">>, <<"a","f","r","i","c","a">>, <<"f","i","a","t">>>>,
     domain |-> <<"c","r","y","p","t","o","c","u","r","r","e","n","c","y">>]

Doc_statistics ==
    [id |-> "statistics-data-science",
     content |->
        <<"S","t","a","t","i","s","t","i","c","s"," ","p","r","o","v","i","d","e","s"," ","f",
          "r","a","m","e","w","o","r","k","s"," ","f","o","r"," ","c","o","l","l","e","c","t",
          "i","n","g",","," ","a","n","a","l","y","z","i","n","g",","," ","a","n","d"," ","i",
          "n","t","e","r","p","r","e","t","i","n","g"," ","d","a","t","a","."," ","P","r","o",
          "b","a","b","i","l","i","t","y"," ","t","h","e","o","r","y"," ","m","o","d","e","l",
          "s"," ","u","n","c","e","r","t","a","i","n","t","y"," ","a","n","d"," ","r","a","n",
          "d","o","m","n","e","s","s","."," ","D","a","t","a"," ","s","c","i","e","n","c","e",
          " ","c","o","m","b","i","n","e","s"," ","s","t","a","t","i","s","t","i","c","s",",",
          " ","p","r","o","g","r","a","m","m","i","n","g",","," ","a","n","d"," ","d","o","m",
          "a","i","n"," ","e","x","p","e","r","t","i","s","e"," ","t","o"," ","e","x","t","r",
          "a","c","t"," ","i","n","s","i","g","h","t","s"," ","f","r","o","m"," ","l","a","r",
          "g","e"," ","d","a","t","a","s","e","t","s","."," ","M","o","d","e","r","n"," ","t",
          "e","c","h","n","i","q","u","e","s"," ","i","n","c","l","u","d","e"," ","B","a","y",
          "e","s","i","a","n"," ","i","n","f","e","r","e","n","c","e",","," ","h","y","p","o",
          "t","h","e","s","i","s"," ","t","e","s","t","i","n","g",","," ","r","e","g","r","e",
          "s","s","i","o","n"," ","a","n","a","l","y","s","i","s",","," ","t","i","m","e"," ",
          "s","e","r","i","e","s"," ","f","o","r","e","c","a","s","t","i","n","g",","," ","a",
          "n","d"," ","c","a","u","s","a","l"," ","i","n","f","e","r","e","n","c","e",".">>,
     importance |-> "high",
     keywords |-> <<<<"s","t","a","t","i","s","t","i","c","s">>, <<"p","r","o","b","a","b","i","l","i","t","y">>, <<"d","a","t","a","-","s","c","i","e","n","c","e">>, <<"b","a","y","e","s","i","a","n">>>>,
     domain |-> <<"m","a","t","h","e","m","a","t","i","c","s">>]

Doc_defi ==
    [id |-> "cryptocurrency-defi-advanced",
     content |->
        <<"C","r","y","p","t","o","c","u","r","r","e","n","c","y"," ","r","e","p","r","e","s",
          "e","n","t","s"," ","d","i","g","i","t","a","l"," ","a","s","s","e","t","s"," ","u",
          "s","i","n","g"," ","c","r","y","p","t","o","g","r","a","p","h","i","c"," ","t","e",
          "c","h","n","i","q","u","e","s"," ","f","o","r"," ","s","e","c","u","r","i","t","y",
          "."," ","A","d","v","a","n","c","e","d"," ","D","e","F","i"," ","p","r","o","t","o",
          "c","o","l","s"," ","i","n","c","l","u","d","e"," ","a","u","t","o","m","a","t","e",
          "d"," ","m","a","r","k","e","t"," ","m","a","k","e","r","s"," ","(","U","n","i","s",
          "w","a","p",")",","," ","l","e","n","d","i","n","g"," ","p","l","a","t","f","o","r",
          "m","s"," ","(","A","a","v","e",","," ","C","o","m","p","o","u","n","d",")",","," ",
          "y","i","e","l","d"," ","f","a","r","m","i","n","g"," ","s","t","r","a","t","e","g",
          "i","e","s",","," ","l","i","q","u","i","d","i","t","y"," ","m","i","n","i","n","g",
          ","," ","a","n","d"," ","s","y","n","t","h","e","t","i","c"," ","a","s","s","e","t",
          " ","c","r","e","a","t","i","o","n","."," ","L","a","y","e","r"," ","2"," ","s","o",
          "l","u","t","i","o","n","s"," ","l","i","k","e"," ","E","t","h","e","r","e","u","m",
          " ","r","o","l","l","u","p","s"," ","i","m","p","r","o","v","e"," ","s","c","a","l",
          "a","b","i","l","i","t","y","."," ","C","e","n","t","r","a","l"," ","B","a","n","k",
          " ","D","i","g","i","t","a","l"," ","C","u","r","r","e","n","c","i","e","s"," ","(",
          "C","B","D","C","s",")"," ","r","e","p","r","e","s","e","n","t"," ","g","o","v","e",
          "r","n","m","e","n","t","-","i","s","s","u","e","d"," ","d","i","g","i","t","a","l",
          " ","m","o","n","e","y",".">>,
     importance |-> "high",
     keywords |-> <<<<"d","e","f","i">>, <<"a","m","m">>, <<"l","e","n","d","i","n","g">>, <<"l","a","y","e","r","2">>, <<"c","b","d","c">>>>,
     domain |-> <<"e","c","o","n","o","m","i","c","s">>]

\* a sixth entry: the word "explainable" stands beyond its first 300 characters
Doc_ethics ==
    [id |-> "ethics-ai-technology",
     content |->
        <<"T","e","c","h","n","o","l","o","g","y"," ","e","t","h","i","c","s"," ","e","x",
          "a","m","i","n","e","s"," ","m","o","r","a","l"," ","i","m","p","l","i","c","a",
          "t","i","o","n","s"," ","o","f"," ","t","e","c","h","n","o","l","o","g","i","c",
          "a","l"," ","d","e","v","e","l","o","p","m","e","n","t"," ","a","n","d"," ","d",
          "e","p","l","o","y","m","e","n","t","."," ","A","I"," ","e","t","h","i","c","s",
          " ","a","d","d","r","e","s","s","e","s"," ","b","i","a","s",","," ","f","a","i",
          "r","n","e","s","s",","," ","t","r","a","n","s","p","a","r","e","n","c","y",",",
          " ","a","c","c","o","u","n","t","a","b","i","l","i","t","y",","," ","a","n","d",
          " ","s","a","f","e","t","y"," ","i","n"," ","a","r","t","i","f","i","c","i","a",
          "l"," ","s","y","s","t","e","m","s","."," ","K","e","y"," ","i","s","s","u","e",
          "s"," ","i","n","c","l","u","d","e"," ","a","l","g","o","r","i","t","h","m","i",
          "c"," ","b","i","a","s",","," ","p","r","i","v","a","c","y",","," ","a","u","t",
          "o","n","o","m","o","u","s"," ","w","e","a","p","o","n","s",","," ","j","o","b",
          " ","d","i","s","p","l","a","c","e","m","e","n","t",","," ","a","n","d"," ","A",
          "I"," ","a","l","i","g","n","m","e","n","t","."," ","F","r","a","m","e","w","o",
          "r","k","s"," ","i","n","c","l","u","d","e"," ","r","e","s","p","o","n","s","i",
          "b","l","e"," ","A","I"," ","d","e","v","e","l","o","p","m","e","n","t",","," ",
          "e","x","p","l","a","i","n","a","b","l","e"," ","A","I",","," ","a","n","d"," ",
          "v","a","l","u","e"," ","a","l","i","g","n","m","e","n","t"," ","r","e","s","e",
          "a","r","c","h",".">>,
     importance |-> "high",
     keywords |-> <<<<"a","i","-","e","t","h","i","c","s">>, <<"b","i","a","s">>, <<"f","a","i","r","n","e","s","s">>, <<"s","a","f","e","t","y">>, <<"a","l","i","g","n","m","e","n","t">>>>,
     domain |-> <<"p","h","i","l","o","s","o","p","h","y">>]

comprehensiveKnowledgeBase ==
    <<Doc_ghchain, Doc_ghgold, Doc_goldvault, Doc_statistics, Doc_defi, Doc_ethics>>

\* this.domainExperts, in insertion order
domainExperts ==
    << [domain |-> <<"c","o","m","p","u","t","e","r","-","s","c","i","e","n","c","e">>,
        keywords |-> <<<<"a","i">>, <<"p","r","o","g","r","a","m","m","i","n","g">>, <<"a","l","g","o","r","i","t","h","m","s">>, <<"s","o","f","t","w","a","r","e">>, <<"n","e","u","r","a","l","-","n","e","t","w","o","r","k","s">>>>],
       [domain |-> <<"p","h","y","s","i","c","s">>,
        keywords |-> <<<<"q","u","a","n","t","u","m">>, <<"r","e","l","a","t","i","v","i","t","y">>, <<"m","e","c","h","a","n","i","c","s">>, <<"t","h","e","r","m","o","d","y","n","a","m","i","c","s">>, <<"p","a","r","t","i","c","l","e","s">>>>],
       [domain |-> <<"m","a","t","h","e","m","a","t","i","c","s">>,
        keywords |-> <<<<"a","l","g","e","b","r","a">>, <<"c","a","l","c","u","l","u","s">>, <<"t","o","p","o","l","o","g","y">>, <<"s","t","a","t","i","s","t","i","c","s">>, <<"p","r","o","b","a","b","i","l","i","t","y">>>>],
       [domain |-> <<"b","i","o","l","o","g","y">>,
        keywords |-> <<<<"g","e","n","e","t","i","c","s">>, <<"e","v","o","l","u","t","i","o","n">>, <<"b","i","o","t","e","c","h","n","o","l","o","g","y">>, <<"m","e","d","i","c","i","n","e">>, <<"n","e","u","r","o","s","c","i","e","n","c","e">>>>],
       [domain |-> <<"e","c","o","n","o","m","i","c","s">>,
        keywords |-> <<<<"m","a","r","k","e","t","s">>, <<"f","i","n","a","n","c","e">>, <<"b","u","s","i","n","e","s","s">>, <<"c","r","y","p","t","o","c","u","r","r","e","n","c","y">>, <<"d","e","f","i">>>>],
       [domain |-> <<"b","l","o","c","k","c","h","a","i","n">>,
        keywords |-> <<<<"g","h","c","h","a","i","n">>, <<"g","h","-","g","o","l","d">>, <<"g","o","l","d","v","a","u","l","t">>, <<"d","e","f","i">>, <<"s","m","a","r","t","-","c","o","n","t","r","a","c","t","s">>>>],
       [domain |-> <<"p","h","i","l","o","s","o","p","h","y">>,
        keywords |-> <<<<"e","t","h","i","c","s">>, <<"c","o","n","s","c","i","o","u","s","n","e","s","s">>, <<"l","o","g","i","c">>, <<"r","e","a","l","i","t","y">>, <<"k","n","o","w","l","e","d","g","e">>>>] >>

---------------------------------------------------------------------------
(* multiAlgorithmSearch *)

\* A similarity is in hundredths.  The fractions matches / length have lengths
\* 1..6 and are kept exact as multiples of 1 / FractionScale.  A composite score
\* is a multiple of 1 / ScoreScale.
FractionScale == 3 * 4 * 5
ScoreScale == 100 * 100 * FractionScale * 10

\* the value NaN: every comparison with it is false
NaN == 0 - 1
IsNaN(x) == x = NaN
GreaterThan(x, y) == ~IsNaN(x) /\ ~IsNaN(y) /\ x > y

\* advancedEmbed: const words = text.toLowerCase().split(/\s+/).filter(w => w.length > 2).
\* With no such word the features 0 / 0 and -Infinity / 0 enter the vector.
MinWordLength == 2
EmbedWords(text) ==
    SelectSeq(SplitWhitespace(ToLowerCase(text)), LAMBDA w : Len(w) > MinWordLength)

EmbeddingAlwaysFinite(text) == FALSE
EmbeddingHasNaN(text) == EmbedWords(text) = <<>>

\* enhancedCosineSimilarity, 1 / (1 + euclideanDistance), 1 / (1 + manhattanDistance)
\* of the query's embedding and the stored embedding of document i: the values of
\* the floating-point code are the entries of the table, and NaN as soon as the
\* query's vector holds one
cosineSim(query, i) == IF EmbeddingHasNaN(query) THEN NaN ELSE similarity[i].cosine
euclideanSim(query, i) == IF EmbeddingHasNaN(query) THEN NaN ELSE similarity[i].euclidean
manhattanSim(query, i) == IF EmbeddingHasNaN(query) THEN NaN ELSE similarity[i].manhattan

\* matches / Math.max(length, 1), in units of 1 / FractionScale
Fraction(matches, length) == (matches * FractionScale) \div Max2(length, 1)

\* keywordScore: the keywords that contain a piece of the query or are contained in one
keywordScore(query, doc) ==
    LET queryWords == SplitWhitespace(ToLowerCase(query))
        matched == SelectSeq(doc.keywords,
                       LAMBDA kw : \E n \in DOMAIN queryWords :
                                       \/ Includes(ToLowerCase(kw), queryWords[n])
                                       \/ Includes(queryWords[n], ToLowerCase(kw)))
    IN  Fraction(Len(matched), Len(doc.keywords))

\* this.domainExperts.get(domain) || []
DomainKeywords(domain) ==
    IF \E n \in DOMAIN domainExperts : domainExperts[n].domain = domain
    THEN domainExperts[CHOOSE n \in DOMAIN domainExperts :
                           domainExperts[n].domain = domain].keywords
    ELSE <<>>

calculateDomainRelevance(query, domain) ==
    LET domainKeywords == DomainKeywords(domain)
        queryLower == ToLowerCase(query)
        matches == SelectSeq(domainKeywords, LAMBDA kw : Includes(queryLower, kw))
    IN  Fraction(Len(matches), Len(domainKeywords))

\* importance === 'high' ? 1.2 : importance === 'medium' ? 1.0 : 0.8, in tenths
HighWeight == 12
MediumWeight == 10
OtherWeight == 8
importanceWeight(doc) ==
    IF doc.importance = "high" THEN HighWeight
    ELSE IF doc.importance = "medium" THEN MediumWeight ELSE OtherWeight

\* the weights of the composite score, in hundredths
CosineShare == 40
EuclideanShare == 20
ManhattanShare == 10
KeywordShare == 20
DomainShare == 10

compositeScore(query, i) ==
    LET doc == comprehensiveKnowledgeBase[i]
    IN  IF EmbeddingHasNaN(query) THEN NaN
        ELSE ( ( cosineSim(query, i) * CosineShare
               + euclideanSim(query, i) * EuclideanShare
               + manhattanSim(query, i) * ManhattanShare ) * FractionScale
             + keywordScore(query, doc) * KeywordShare * 100
             + calculateDomainRelevance(query, doc.domain) * DomainShare * 100 )
             * importanceWeight(doc)

\* if (compositeScore > 0.1)
RelevanceFloor == ScoreScale \div 10
AboveFloorDropsNaNOnly(score) == ~IsNaN(score) /\ score >= RelevanceFloor
AboveFloor(score) == GreaterThan(score, RelevanceFloor)

\* doc.content.length > 300 ? doc.content.substring(0, 300) + "..." : doc.content
PreviewLength == 300
Preview(doc) ==
    IF Len(doc.content) > PreviewLength
    THEN Substring0(doc.content, PreviewLength) \o <<".", ".", ".">>
    ELSE doc.content

\* the loop over the corpus: one result per document that passes the floor.  A
\* result is the document (named by its id) with its score.
ScoredResults(query) ==
    LET scores == [i \in DOMAIN comprehensiveKnowledgeBase |-> compositeScore(query, i)]
        kept == SelectSeq([i \in DOMAIN comprehensiveKnowledgeBase |-> i],
                          LAMBDA i : AboveFloor(scores[i]))
    IN  [n \in DOMAIN kept |-> [id |-> comprehensiveKnowledgeBase[kept[n]].id,
                                score |-> scores[kept[n]]]]

\* results.sort((a, b) => b.compositeScore - a.compositeScore).slice(0, topK)
KeepAll(results, topK) == results
TopSlice(results, topK) == SliceTo(results, topK)

multiAlgorithmSearch(query, topK) ==
    LET results == ScoredResults(query)
    IN  TopSlice(SortDescBy(results, [n \in DOMAIN results |-> results[n].score]), topK)

\* the document a result stands for
DocOf(r) ==
    comprehensiveKnowledgeBase[CHOOSE i \in DOMAIN comprehensiveKnowledgeBase :
                                   comprehensiveKnowledgeBase[i].id = r.id]

---------------------------------------------------------------------------
(* advancedEntityExtraction *)

\* const knownEntities
knownEntities ==
    << <<"G","H","C","h","a","i","n">>,
       <<"G","H"," ","G","O","L","D">>,
       <<"G","O","L","D","V","A","U","L","T">>,
       <<"A","n","a","a","s","e">>,
       <<"D","e","F","i">>,
       <<"A","f","r","i","c","a">>,
       <<"A","I">>,
       <<"M","a","c","h","i","n","e"," ","L","e","a","r","n","i","n","g">>,
       <<"N","e","u","r","a","l"," ","N","e","t","w","o","r","k","s">>,
       <<"D","e","e","p"," ","L","e","a","r","n","i","n","g">>,
       <<"B","l","o","c","k","c","h","a","i","n">>,
       <<"B","i","t","c","o","i","n">>,
       <<"C","r","y","p","t","o","c","u","r","r","e","n","c","y">>,
       <<"S","m","a","r","t"," ","C","o","n","t","r","a","c","t","s">>,
       <<"Q","u","a","n","t","u","m"," ","C","o","m","p","u","t","i","n","g">>,
       <<"Q","u","a","n","t","u","m"," ","M","e","c","h","a","n","i","c","s">>,
       <<"P","h","y","s","i","c","s">>,
       <<"M","a","t","h","e","m","a","t","i","c","s">>,
       <<"P","r","o","g","r","a","m","m","i","n","g">>,
       <<"J","a","v","a","S","c","r","i","p","t">>,
       <<"P","y","t","h","o","n">>,
       <<"R","e","a","c","t">>,
       <<"N","o","d","e",".","j","s">>,
       <<"B","i","o","l","o","g","y">>,
       <<"G","e","n","e","t","i","c","s">>,
       <<"C","R","I","S","P","R">>,
       <<"B","i","o","t","e","c","h","n","o","l","o","g","y">>,
       <<"M","e","d","i","c","i","n","e">>,
       <<"E","c","o","n","o","m","i","c","s">>,
       <<"B","u","s","i","n","e","s","s">>,
       <<"M","a","r","k","e","t","s">>,
       <<"F","i","n","a","n","c","e">>,
       <<"S","t","a","t","i","s","t","i","c","s">>,
       <<"P","h","i","l","o","s","o","p","h","y">>,
       <<"E","t","h","i","c","s">>,
       <<"C","o","n","s","c","i","o","u","s","n","e","s","s">>,
       <<"L","o","g","i","c">> >>

\* const techTerms
techTerms ==
    << <<"a","l","g","o","r","i","t","h","m">>,
       <<"d","a","t","a","b","a","s","e">>,
       <<"f","r","a","m","e","w","o","r","k">>,
       <<"p","r","o","t","o","c","o","l">>,
       <<"i","n","t","e","r","f","a","c","e">>,
       <<"f","u","n","c","t","i","o","n">>,
       <<"v","a","r","i","a","b","l","e">>,
       <<"p","a","r","a","m","e","t","e","r">>,
       <<"o","p","t","i","m","i","z","a","t","i","o","n">>,
       <<"a","n","a","l","y","s","i","s">>,
       <<"s","y","n","t","h","e","s","i","s">>,
       <<"i","m","p","l","e","m","e","n","t","a","t","i","o","n">>,
       <<"a","r","c","h","i","t","e","c","t","u","r","e">>,
       <<"m","e","t","h","o","d","o","l","o","g","y">> >>

\* the maximal runs of word characters of s, as [from, to]; a \b of a regular
\* expression lies exactly at the two ends of each run
RECURSIVE WordRunsFrom(_, _)
WordRunsFrom(s, i) ==
    IF i > Len(s) THEN <<>>
    ELSE IF ~IsWordChar(s[i]) THEN WordRunsFrom(s, i + 1)
    ELSE LET j == CHOOSE j \in i..Len(s) :
                     /\ \A k \in i..j : IsWordChar(s[k])
                     /\ (j = Len(s) \/ ~IsWordChar(s[j + 1]))
         IN  <<[from |-> i, to |-> j]>> \o WordRunsFrom(s, j + 1)

WordRuns(s) == WordRunsFrom(s, 1)

RunText(s, run) == SubSeq(s, run.from, run.to)

\* /\b[A-Z]{2,10}\b/g
IsAcronym(w) == Len(w) >= 2 /\ Len(w) <= 10 /\ \A i \in DOMAIN w : IsUpper(w[i])

Acronyms(s) ==
    LET runs == SelectSeq(WordRuns(s), LAMBDA run : IsAcronym(RunText(s, run)))
    IN  [i \in DOMAIN runs |-> RunText(s, runs[i])]

\* /\b[A-Z][a-z]+(?:\s+[A-Z][a-z]+)*\b/g: capitalised words, chained over white space
IsCapitalised(w) == Len(w) >= 2 /\ IsUpper(w[1]) /\ \A i \in 2..Len(w) : IsLower(w[i])

Chained(s, runs, i) ==
    /\ IsCapitalised(RunText(s, runs[i]))
    /\ IsCapitalised(RunText(s, runs[i + 1]))
    /\ \A k \in (runs[i].to + 1)..(runs[i + 1].from - 1) : IsSpace(s[k])

RECURSIVE ProperNounsFrom(_, _, _)
ProperNounsFrom(s, runs, i) ==
    IF i > Len(runs) THEN <<>>
    ELSE IF ~IsCapitalised(RunText(s, runs[i])) THEN ProperNounsFrom(s, runs, i + 1)
    ELSE LET j == CHOOSE j \in i..Len(runs) :
                     /\ \A k \in i..(j - 1) : Chained(s, runs, k)
                     /\ (j = Len(runs) \/ ~Chained(s, runs, j))
         IN  <<SubSeq(s, runs[i].from, runs[j].to)>> \o ProperNounsFrom(s, runs, j + 1)

ProperNouns(s) == ProperNounsFrom(s, WordRuns(s), 1)

\* /\b\d+[A-Za-z]+\b/g
IsAlphanumericCode(w) ==
    \E k \in 1..(Len(w) - 1) :
        /\ \A i \in 1..k : IsDigit(w[i])
        /\ \A i \in (k + 1)..Len(w) : IsLetter(w[i])

AlphanumericCodes(s) ==
    LET runs == SelectSeq(WordRuns(s), LAMBDA run : IsAlphanumericCode(RunText(s, run)))
    IN  [i \in DOMAIN runs |-> RunText(s, runs[i])]

\* /\b[a-z]+-[a-z]+\b/gi
IsLetters(w) == \A i \in DOMAIN w : IsLetter(w[i])

Hyphenated(s, runs, i) ==
    /\ i < Len(runs)
    /\ IsLetters(RunText(s, runs[i]))
    /\ IsLetters(RunText(s, runs[i + 1]))
    /\ runs[i + 1].from = runs[i].to + 2
    /\ s[runs[i].to + 1] = "-"

RECURSIVE HyphenatedFrom(_, _, _)
HyphenatedFrom(s, runs, i) ==
    IF i > Len(runs) THEN <<>>
    ELSE IF Hyphenated(s, runs, i)
         THEN <<SubSeq(s, runs[i].from, runs[i + 1].to)>> \o HyphenatedFrom(s, runs, i + 2)
         ELSE HyphenatedFrom(s, runs, i + 1)

HyphenatedTerms(s) == HyphenatedFrom(s, WordRuns(s), 1)

\* matches.forEach(match => { if (match.length > 2 && match.length < 30) ... })
MinMatchLength == 2
MaxMatchLength == 30

PatternMatches(s) ==
    SelectSeq(Acronyms(s) \o ProperNouns(s) \o AlphanumericCodes(s) \o HyphenatedTerms(s),
              LAMBDA match : Len(match) > MinMatchLength /\ Len(match) < MaxMatchLength)

\* term.charAt(0).toUpperCase() + term.slice(1)
Capitalise(term) ==
    IF term = <<>> THEN <<>> ELSE <<UpperChar(term[1])>> \o Tail(term)

extractPatternsOnly(text) == Distinct(PatternMatches(text))

advancedEntityExtraction(text) ==
    LET lower == ToLowerCase(text)
        exact == SelectSeq(knownEntities,
                           LAMBDA entity : Includes(lower, ToLowerCase(entity)))
        terms == SelectSeq(techTerms, LAMBDA term : Includes(lower, term))
    IN  Distinct(exact \o PatternMatches(text) \o [i \in DOMAIN terms |-> Capitalise(terms[i])])

---------------------------------------------------------------------------
(* advancedRuleEngine *)

\* const advancedRules, in the order written.  A pattern is its list of alternatives
\* (/.*/ is the flag anything); a trigger is "entities" (some extracted entity is in
\* the list) or one of the three structural tests.
advancedRules ==
    << [name |-> "ai-deep-learning-rule",
        anything |-> FALSE,
        alternatives |-> <<<<"a","r","t","i","f","i","c","i","a","l"," ","i","n","t","e","l","l","i","g","e","n","c","e">>, <<"a","i">>, <<"m","a","c","h","i","n","e"," ","l","e","a","r","n","i","n","g">>, <<"n","e","u","r","a","l"," ","n","e","t","w","o","r","k">>, <<"d","e","e","p"," ","l","e","a","r","n","i","n","g">>>>,
        trigger |-> "entities",
        list |-> <<<<"A","I">>, <<"M","a","c","h","i","n","e"," ","L","e","a","r","n","i","n","g">>, <<"N","e","u","r","a","l"," ","N","e","t","w","o","r","k","s">>>>],
       [name |-> "blockchain-ecosystem-rule",
        anything |-> FALSE,
        alternatives |-> <<<<"b","l","o","c","k","c","h","a","i","n">>, <<"c","r","y","p","t","o","c","u","r","r","e","n","c","y">>, <<"d","e","f","i">>, <<"s","m","a","r","t"," ","c","o","n","t","r","a","c","t">>, <<"t","o","k","e","n">>>>,
        trigger |-> "entities",
        list |-> <<<<"B","l","o","c","k","c","h","a","i","n">>, <<"C","r","y","p","t","o","c","u","r","r","e","n","c","y">>, <<"G","H","C","h","a","i","n">>, <<"G","H"," ","G","O","L","D">>>>],
       [name |-> "quantum-physics-rule",
        anything |-> FALSE,
        alternatives |-> <<<<"q","u","a","n","t","u","m">>, <<"p","h","y","s","i","c","s">>, <<"m","e","c","h","a","n","i","c","s">>, <<"r","e","l","a","t","i","v","i","t","y">>, <<"p","a","r","t","i","c","l","e">>>>,
        trigger |-> "entities",
        list |-> <<<<"Q","u","a","n","t","u","m"," ","C","o","m","p","u","t","i","n","g">>, <<"P","h","y","s","i","c","s">>, <<"Q","u","a","n","t","u","m"," ","M","e","c","h","a","n","i","c","s">>>>],
       [name |-> "programming-software-rule",
        anything |-> FALSE,
        alternatives |-> <<<<"p","r","o","g","r","a","m","m","i","n","g">>, <<"s","o","f","t","w","a","r","e">>, <<"c","o","d","e">>, <<"d","e","v","e","l","o","p","m","e","n","t">>, <<"a","l","g","o","r","i","t","h","m">>>>,
        trigger |-> "entities",
        list |-> <<<<"P","r","o","g","r","a","m","m","i","n","g">>, <<"S","o","f","t","w","a","r","e">>, <<"A","l","g","o","r","i","t","h","m">>>>],
       [name |-> "biology-medicine-rule",
        anything |-> FALSE,
        alternatives |-> <<<<"b","i","o","l","o","g","y">>, <<"g","e","n","e","t","i","c","s">>, <<"m","e","d","i","c","i","n","e">>, <<"b","i","o","t","e","c","h">>, <<"c","r","i","s","p","r">>, <<"g","e","n","e">>>>,
        trigger |-> "entities",
        list |-> <<<<"B","i","o","l","o","g","y">>, <<"G","e","n","e","t","i","c","s">>, <<"M","e","d","i","c","i","n","e">>, <<"B","i","o","t","e","c","h","n","o","l","o","g","y">>>>],
       [name |-> "mathematics-statistics-rule",
        anything |-> FALSE,
        alternatives |-> <<<<"m","a","t","h","e","m","a","t","i","c","s">>, <<"m","a","t","h">>, <<"s","t","a","t","i","s","t","i","c","s">>, <<"p","r","o","b","a","b","i","l","i","t","y">>, <<"c","a","l","c","u","l","u","s">>>>,
        trigger |-> "entities",
        list |-> <<<<"M","a","t","h","e","m","a","t","i","c","s">>, <<"S","t","a","t","i","s","t","i","c","s">>, <<"P","r","o","b","a","b","i","l","i","t","y">>>>],
       [name |-> "economics-business-rule",
        anything |-> FALSE,
        alternatives |-> <<<<"e","c","o","n","o","m","i","c","s">>, <<"b","u","s","i","n","e","s","s">>, <<"m","a","r","k","e","t">>, <<"f","i","n","a","n","c","e">>, <<"t","r","a","d","i","n","g">>>>,
        trigger |-> "entities",
        list |-> <<<<"E","c","o","n","o","m","i","c","s">>, <<"B","u","s","i","n","e","s","s">>, <<"M","a","r","k","e","t","s">>, <<"F","i","n","a","n","c","e">>>>],
       [name |-> "interdisciplinary-connection-rule",
        anything |-> TRUE,
        alternatives |-> <<>>,
        trigger |-> "domains",
        list |-> <<>>],
       [name |-> "high-complexity-reasoning-rule",
        anything |-> FALSE,
        alternatives |-> <<<<"e","x","p","l","a","i","n">>, <<"a","n","a","l","y","z","e">>, <<"c","o","m","p","a","r","e">>, <<"r","e","l","a","t","i","o","n","s","h","i","p">>, <<"c","o","n","n","e","c","t","i","o","n">>, <<"i","m","p","a","c","t">>>>,
        trigger |-> "complexity",
        list |-> <<>>],
       [name |-> "specialization-expertise-rule",
        anything |-> TRUE,
        alternatives |-> <<>>,
        trigger |-> "expertise",
        list |-> <<>>] >>

CombinedPreviews(query, docList) ==
    ToLowerCase(query \o <<" ">> \o Join([n \in DOMAIN docList |-> Preview(DocOf(docList[n]))],
                                         <<" ">>))

\* `${query} ${docs.map(d => d.content).join(' ')}`.toLowerCase()
CombinedText(query, docList) ==
    ToLowerCase(query \o <<" ">> \o Join([n \in DOMAIN docList |-> DocOf(docList[n]).content],
                                         <<" ">>))

\* rule.pattern.test(combinedText)
PatternTest(rule, combinedText) ==
    \/ rule.anything
    \/ \E n \in DOMAIN rule.alternatives : Includes(combinedText, rule.alternatives[n])

\* new Set(docs.map(d => d.meta.domain))
DomainsOf(docList) == Distinct([n \in DOMAIN docList |-> DocOf(docList[n]).domain])

\* rule.trigger()
ComplexityLimit == 3
Trigger(rule, docList, entityList) ==
    CASE rule.trigger = "entities" ->
            \E n \in DOMAIN entityList : entityList[n] \in Range(rule.list)
      [] rule.trigger = "domains" -> Len(DomainsOf(docList)) > 1
      [] rule.trigger = "complexity" ->
            Len(entityList) > ComplexityLimit \/ Len(docList) > ComplexityLimit
      [] rule.trigger = "expertise" ->
            /\ \E n \in DOMAIN docList : DocOf(docList[n]).importance = "high"
            /\ Len(entityList) > 0

\* if (rule.pattern.test(combinedText) && rule.trigger())
FiresOnPattern(rule, combinedText, docList, entityList) ==
    PatternTest(rule, combinedText)

Fires(rule, combinedText, docList, entityList) ==
    PatternTest(rule, combinedText) /\ Trigger(rule, docList, entityList)

\* for (const rule of advancedRules) ... firedRules.push(rule.name)
RECURSIVE FireRules(_, _, _, _, _)
FireRules(n, firedRules, combinedText, docList, entityList) ==
    IF n > Len(advancedRules) THEN firedRules
    ELSE FireRules(n + 1,
                   IF Fires(advancedRules[n], combinedText, docList, entityList)
                   THEN Append(firedRules, advancedRules[n].name)
                   ELSE firedRules,
                   combinedText, docList, entityList)

advancedRuleEngine(query, docList, entityList) ==
    FireRules(1, <<>>, CombinedText(query, docList), docList, entityList)

---------------------------------------------------------------------------
(* synthesizeIntelligentAnswer *)

\* the pieces of text the answer is assembled from
FallbackHead ==
    <<"I","'","m"," ","p","e","r","f","o","r","m","i","n","g"," ","d","e","e","p"," ","a","n",
      "a","l","y","s","i","s"," ","o","n"," ">>

Quote == <<"\"">>

FallbackTail ==
    <<" ","a","c","r","o","s","s"," ","m","y"," ","c","o","m","p","r","e","h","e","n","s","i",
      "v","e"," ","k","n","o","w","l","e","d","g","e"," ","b","a","s","e"," ","s","p","a","n",
      "n","i","n","g"," ","t","e","c","h","n","o","l","o","g","y",","," ","s","c","i","e","n",
      "c","e",","," ","m","a","t","h","e","m","a","t","i","c","s",","," ","b","u","s","i","n",
      "e","s","s",","," ","a","n","d"," ","s","p","e","c","i","a","l","i","z","e","d"," ","d",
      "o","m","a","i","n","s","."," ","W","h","i","l","e"," ","I"," ","m","a","y"," ","h","a",
      "v","e"," ","l","i","m","i","t","e","d"," ","d","i","r","e","c","t"," ","m","a","t","c",
      "h","e","s",","," ","I","'","m"," ","a","p","p","l","y","i","n","g"," ","m","u","l","t",
      "i","-","h","o","p"," ","r","e","a","s","o","n","i","n","g"," ","a","n","d"," ","c","r",
      "o","s","s","-","d","o","m","a","i","n"," ","i","n","f","e","r","e","n","c","e"," ","t",
      "o"," ","p","r","o","v","i","d","e"," ","t","h","e"," ","m","o","s","t"," ","r","e","l",
      "e","v","a","n","t"," ","i","n","s","i","g","h","t","s"," ","p","o","s","s","i","b","l",
      "e",".">>

PrimaryHead ==
    <<"B","a","s","e","d"," ","o","n"," ","m","y"," ","d","e","e","p"," ","k","n","o","w","l",
      "e","d","g","e"," ","a","n","a","l","y","s","i","s",":"," ">>

ExpertiseHead ==
    <<" ","T","h","i","s"," ","r","e","p","r","e","s","e","n","t","s"," ","c","o","r","e"," ",
      "k","n","o","w","l","e","d","g","e"," ","i","n"," ">>

CrossDomainHead ==
    <<" ","M","y"," ","r","e","a","s","o","n","i","n","g"," ","e","n","g","i","n","e"," ","h",
      "a","s"," ","i","d","e","n","t","i","f","i","e","d"," ","c","r","o","s","s","-","d","o",
      "m","a","i","n"," ","c","o","n","n","e","c","t","i","o","n","s"," ","s","p","a","n","n",
      "i","n","g"," ">>

RelationshipsHead ==
    <<" ","T","h","r","o","u","g","h"," ","k","n","o","w","l","e","d","g","e"," ","g","r","a",
      "p","h"," ","t","r","a","v","e","r","s","a","l",","," ","I","'","v","e"," ","i","d","e",
      "n","t","i","f","i","e","d"," ","t","h","e","s","e"," ","k","e","y"," ","r","e","l","a",
      "t","i","o","n","s","h","i","p","s",":"," ">>

ClosingHead ==
    <<" ","T","h","i","s"," ","a","n","a","l","y","s","i","s"," ","i","n","v","o","l","v","e",
      "d"," ">>

ClosingMiddle ==
    <<" ","k","e","y"," ","c","o","n","c","e","p","t","s"," ","a","n","d"," ">>

ClosingTail ==
    <<" ","r","e","l","a","t","i","o","n","s","h","i","p"," ","i","n","f","e","r","e","n","c",
      "e","s"," ","a","c","r","o","s","s"," ","m","u","l","t","i","p","l","e"," ","r","e","a",
      "s","o","n","i","n","g"," ","p","a","t","h","s",".">>

DefaultAnswer ==
    <<"I","'","v","e"," ","p","r","o","c","e","s","s","e","d"," ","y","o","u","r"," ","q","u",
      "e","r","y"," ","u","s","i","n","g"," ","a","d","v","a","n","c","e","d"," ","s","e","m",
      "a","n","t","i","c"," ","s","e","a","r","c","h",","," ","m","u","l","t","i","-","h","o",
      "p"," ","g","r","a","p","h"," ","r","e","a","s","o","n","i","n","g",","," ","a","n","d",
      " ","c","r","o","s","s","-","d","o","m","a","i","n"," ","i","n","f","e","r","e","n","c",
      "e"," ","a","c","r","o","s","s"," ","m","y"," ","c","o","m","p","r","e","h","e","n","s",
      "i","v","e"," ","k","n","o","w","l","e","d","g","e"," ","b","a","s","e",".">>

Period == <<".">>

\* `${n}` for a number n >= 0
RECURSIVE DecimalString(_)
DecimalString(n) ==
    IF n < 10 THEN <<Digits[n + 1]>>
    ELSE Append(DecimalString(n \div 10), Digits[(n % 10) + 1])

\* if (docs.length === 0 && graphPath.length === 0) return `I'm performing ... "${query}" ...`
FallbackAnswer(query) == FallbackHead \o Quote \o query \o Quote \o FallbackTail

\* primaryDoc.content.substring(0, 400), and the note on a document of high importance
ContextLength == 400
PrimarySegment(primary) ==
    PrimaryHead \o Substring0(DocOf(primary).content, ContextLength)
    \o (IF DocOf(primary).importance = "high"
        THEN ExpertiseHead \o DocOf(primary).domain \o Period
        ELSE <<>>)

\* Array.from(domains).join(', ')
CrossDomainSegment(docList) ==
    CrossDomainHead \o Join(DomainsOf(docList), <<",", " ">>) \o Period

\* predicate.replace(/([A-Z])/g, ' $1').toLowerCase().replace(/_/g, ' ')
RECURSIVE SpaceBeforeUpper(_)
SpaceBeforeUpper(s) ==
    IF s = <<>> THEN <<>>
    ELSE (IF IsUpper(s[1]) THEN <<" ", s[1]>> ELSE <<s[1]>>) \o SpaceBeforeUpper(Tail(s))

RenderPredicate(predicate) ==
    LET lower == ToLowerCase(SpaceBeforeUpper(predicate))
    IN  [i \in DOMAIN lower |-> IF lower[i] = "_" THEN " " ELSE lower[i]]

\* graphPath.filter(p => p.confidence > 0.8).slice(0, 3)
HighConfidence == 80
RelationshipLimit == 3
HighConfidencePathsFromThreshold(pathList) ==
    Slice0(SelectSeq(pathList, LAMBDA p : p.confidence >= HighConfidence * Pct),
           RelationshipLimit)

HighConfidencePaths(pathList) ==
    Slice0(SelectSeq(pathList, LAMBDA p : p.confidence > HighConfidence * Pct),
           RelationshipLimit)

RelationshipsSegment(pathList) ==
    LET paths == HighConfidencePaths(pathList)
    IN  RelationshipsHead
        \o Join([n \in DOMAIN paths |->
                    paths[n].subject \o <<" ">> \o RenderPredicate(paths[n].predicate)
                    \o <<" ">> \o paths[n].object],
                <<";", " ">>)
        \o Period

ClosingSegment(entityList, pathList) ==
    ClosingHead \o DecimalString(Len(entityList)) \o ClosingMiddle
    \o DecimalString(Len(pathList)) \o ClosingTail

\* the four places where the answer grows
WithPrimary(text, docList) ==
    IF Len(docList) > 0 THEN text \o PrimarySegment(docList[1]) ELSE text

WithCrossDomain(text, docList) ==
    IF Len(DomainsOf(docList)) > 1 THEN text \o CrossDomainSegment(docList) ELSE text

WithRelationships(text, pathList) ==
    IF Len(pathList) > 0 /\ Len(HighConfidencePaths(pathList)) > 0
    THEN text \o RelationshipsSegment(pathList)
    ELSE text

ClosingLimit == 2
WithClosing(text, entityList, pathList) ==
    IF Len(entityList) > ClosingLimit /\ Len(pathList) > ClosingLimit
    THEN text \o ClosingSegment(entityList, pathList)
    ELSE text

RelationshipsFirst(docList, pathList, entityList) ==
    WithClosing(WithCrossDomain(WithPrimary(WithRelationships(<<>>, pathList), docList),
                                docList),
                entityList, pathList)

ComposeAnswer(docList, pathList, entityList) ==
    WithClosing(WithRelationships(WithCrossDomain(WithPrimary(<<>>, docList), docList),
                                  pathList),
                entityList, pathList)

\* return answer || "I've processed your query ..."
KeepEmpty(text) == text
OrDefault(text) == IF text = <<>> THEN DefaultAnswer ELSE text

synthesizeIntelligentAnswer(query, docList, pathList, entityList) ==
    IF Len(docList) = 0 /\ Len(pathList) = 0 THEN FallbackAnswer(query)
    ELSE OrDefault(ComposeAnswer(docList, pathList, entityList))

---------------------------------------------------------------------------
(* MultiDomainAggregator *)

\* the two characters of the answers that are not ASCII; each stands for one element
\* of a string
EnDash == "EN DASH"
Degree == "DEGREE SIGN"

\* the providers, in the order probeConnectivity tries them
ProviderOrder == <<"wikipedia", "nasa", "openweather">>
Providers == Range(ProviderOrder)

\* String.prototype.trim
RECURSIVE TrimLeft(_)
TrimLeft(s) == IF s # <<>> /\ IsSpace(s[1]) THEN TrimLeft(Tail(s)) ELSE s

RECURSIVE TrimRight(_)
TrimRight(s) ==
    IF s # <<>> /\ IsSpace(s[Len(s)]) THEN TrimRight(SubSeq(s, 1, Len(s) - 1)) ELSE s

Trim(s) == TrimRight(TrimLeft(s))

\* a || b and a ?? b, where <<>> is the undefined value
OrElse(a, b) == IF a # <<>> THEN a ELSE b

\* a SearchResult; the value null has the source "null"
NoWeather == [description |-> <<>>, temp |-> <<>>, feelsLike |-> <<>>, humidity |-> <<>>]
SearchResult(source, title, description, weather) ==
    [source |-> source, title |-> title, description |-> description, weather |-> weather]
NullResult == SearchResult("null", <<>>, <<>>, NoWeather)

\* analyzeEnhancedQuery: the categories of a query
WeatherWords == <<<<"w","e","a","t","h","e","r">>, <<"t","e","m","p","e","r","a","t","u","r","e">>, <<"c","l","i","m","a","t","e">>>>
WikipediaWords == <<<<"w","h","o">>, <<"w","h","e","n">>, <<"w","h","e","r","e">>, <<"w","h","a","t">>, <<"h","i","s","t","o","r","y">>>>
NasaWords == <<<<"n","a","s","a">>, <<"s","p","a","c","e">>, <<"p","l","a","n","e","t">>, <<"m","o","o","n">>>>

MatchesAny(text, words) == \E i \in DOMAIN words : Includes(text, words[i])

analyzeEnhancedQuery(query) ==
    LET questionLower == ToLowerCase(query)
        categories ==
            (IF MatchesAny(questionLower, WeatherWords) THEN <<"weather">> ELSE <<>>)
            \o (IF MatchesAny(questionLower, WikipediaWords) THEN <<"wikipedia">> ELSE <<>>)
            \o (IF MatchesAny(questionLower, NasaWords) THEN <<"nasa">> ELSE <<>>)
    IN  IF categories = <<>> THEN <<"wikipedia">> ELSE categories

selectAvailableAPIs(categories) ==
    SelectSeq((IF "weather" \in Range(categories) THEN <<"openweather">> ELSE <<>>)
              \o (IF "wikipedia" \in Range(categories) THEN <<"wikipedia">> ELSE <<>>)
              \o (IF "nasa" \in Range(categories) THEN <<"nasa">> ELSE <<>>),
              LAMBDA api : api \in Range(available))

selectRelevantAPIs(categories) ==
    (IF "weather" \in Range(categories) THEN <<"openweather">> ELSE <<>>)
    \o (IF "wikipedia" \in Range(categories) THEN <<"wikipedia">> ELSE <<>>)
    \o (IF "nasa" \in Range(categories) THEN <<"nasa">> ELSE <<>>)

\* the segment of the answer made from one result
processWikipediaData(data) ==
    Trim(<<"A","c","c","o","r","d","i","n","g"," ","t","o"," ","W","i","k","i","p","e","d","i","a",":"," ">> \o OrElse(data.description, data.title))

processWeatherData(data) ==
    LET w == data.weather
    IN  <<"T","h","e"," ","w","e","a","t","h","e","r"," ","i","s"," ">> \o OrElse(w.description, <<"u","n","k","n","o","w","n">>)
        \o <<","," ","a","r","o","u","n","d"," ">> \o OrElse(w.temp, <<"N","/","A">>)
        \o <<Degree>> \o <<"C"," ","(","f","e","e","l","s"," ","l","i","k","e"," ">> \o OrElse(w.feelsLike, <<"N","/","A">>)
        \o <<Degree>> \o <<"C",")",","," ","h","u","m","i","d","i","t","y"," ">> \o OrElse(w.humidity, <<"N","/","A">>) \o <<"%">>

processNASAData(data) ==
    Trim(<<"F","r","o","m"," ","N","A","S","A",":"," ">> \o data.title \o <<" ">>
         \o (IF data.description # <<>> THEN <<EnDash, " ">> \o data.description ELSE <<>>))

Segment(data) ==
    IF data.source = "wikipedia" THEN processWikipediaData(data)
    ELSE IF data.source = "openweather" THEN processWeatherData(data)
    ELSE IF data.source = "nasa" THEN processNASAData(data)
    ELSE OrElse(data.description, data.title)

NoExternalInfo == <<"N","o"," ","e","x","t","e","r","n","a","l"," ","i","n","f","o"," ","f","o","u","n","d",".">>
Separator == <<" ", "|", " ">>

\* consolidated.answer = consolidated.inferenceChains.join(" | ") || "No external info found."
KeepEmptyAnswer(text) == text
AnswerOrNoInfo(text) == IF text # <<>> THEN text ELSE NoExternalInfo

consolidateData(query, results, overallTrace) ==
    LET segments == [i \in DOMAIN results |-> Segment(results[i])]
        inferenceChains == SelectSeq(segments, LAMBDA segment : segment # <<>>)
    IN  [answer |-> AnswerOrNoInfo(Join(inferenceChains, Separator)),
         sources |-> results,
         inferenceChains |-> inferenceChains,
         trace |-> overallTrace]

\* fallbackLocalKnowledge: the entry of the local knowledge base whose key the query
\* contains, the entry "default" otherwise
LocalKeys == <<<<"g","h","c","h","a","i","n">>, <<"g","o","l","d","v","a","u","l","t">>, <<"d","e","f","a","u","l","t">>>>
LocalAnswer(key, query) ==
    IF key = <<"g","h","c","h","a","i","n">> THEN <<"G","H","C","h","a","i","n"," ","i","s"," ","y","o","u","r"," ","c","u","s","t","o","m"," ","b","l","o","c","k","c","h","a","i","n"," ","d","e","s","i","g","n"," ","c","o","n","c","e","p","t"," ","(","t","r","i","b","a","l"," ","v","o","t","i","n","g",","," ","l","o","w"," ","f","e","e","s",")",".">>
    ELSE IF key = <<"g","o","l","d","v","a","u","l","t">> THEN <<"G","O","L","D","V","A","U","L","T"," ","i","s"," ","t","h","e"," ","p","l","a","n","n","e","d"," ","A","f","r","i","c","a","n"," ","e","x","c","h","a","n","g","e"," ","c","o","m","p","o","n","e","n","t"," ","(","c","u","s","t","o","d","i","a","l"," ","+"," ","n","o","n","-","c","u","s","t","o","d","i","a","l"," ","p","a","i","r","i","n","g",")",".">>
    ELSE <<"I"," ","c","o","u","l","d","n","'","t"," ","r","e","a","c","h"," ","e","x","t","e","r","n","a","l"," ","d","a","t","a"," ","s","o","u","r","c","e","s","."," ","H","e","r","e","'","s"," ","a"," ","l","o","c","a","l"," ","q","u","i","c","k"," ","s","u","m","m","a","r","y"," ","f","o","r"," ","\"">> \o query \o <<"\"",".">>

fallbackLocalKnowledge(query) ==
    LET lower == ToLowerCase(query)
        found == SelectSeq(LocalKeys, LAMBDA k : Includes(lower, k))
        key == IF found = <<>> THEN <<"d","e","f","a","u","l","t">> ELSE found[1]
        entry == LocalAnswer(key, query)
    IN  [answer |-> entry,
         sources |-> <<SearchResult("local-kb", key, entry, NoWeather)>>,
         inferenceChains |-> <<entry>>,
         trace |-> <<"fallback", "connectivityProbe">>]

\* what the providers send when they answer a search
WikipediaData == SearchResult("wikipedia", <<"A","c","c","r","a">>, <<"A","c","c","r","a"," ","i","s"," ","t","h","e"," ","c","a","p","i","t","a","l"," ","o","f"," ","G","h","a","n","a",".">>, NoWeather)
WikipediaBare == SearchResult("wikipedia", <<"A","c","c","r","a">>, <<>>, NoWeather)
NasaData == SearchResult("nasa", <<"M","o","o","n">>, <<"T","h","e"," ","M","o","o","n"," ","s","e","e","n"," ","f","r","o","m"," ","o","r","b","i","t",".">>, NoWeather)
NasaEmpty == SearchResult("nasa", <<>>, <<>>, NoWeather)
WeatherData ==
    SearchResult("openweather", <<>>, <<>>,
                 [description |-> <<"s","c","a","t","t","e","r","e","d"," ","c","l","o","u","d","s">>, temp |-> <<"2", "9">>, feelsLike |-> <<"3", "3">>,
                  humidity |-> <<"7", "0">>])

Payloads(api) ==
    IF api = "wikipedia" THEN {WikipediaData, WikipediaBare}
    ELSE IF api = "nasa" THEN {NasaData, NasaEmpty}
    ELSE {WeatherData}

\* the state of one search promise of queryAPIs
Promise(state, value) == [state |-> state, value |-> value]

NoCalls == [api \in Providers |-> Promise("none", NullResult)]

NoConsolidated == [answer |-> <<>>, sources |-> <<>>, inferenceChains |-> <<>>, trace |-> <<>>]

NoEarlier ==
    [valid |-> FALSE, query |-> <<>>, apis |-> <<>>, calls |-> NoCalls, settled |-> <<>>,
     consolidated |-> NoConsolidated]

\* the results queryAPIs returns: Promise.allSettled keeps the order of the promises,
\* and filter(Boolean) drops the nulls
ResultsInCompletionOrder(list, table, order) ==
    SelectSeq([i \in DOMAIN order |-> table[order[i]].value],
              LAMBDA r : r.source # "null")

ResultsInSelectionOrder(list, table, order) ==
    SelectSeq([i \in DOMAIN list |-> table[list[i]].value],
              LAMBDA r : r.source # "null")

\* handleQuery(query) on a new MultiDomainAggregator
A_HandleQuery(query) ==
    /\ apc \in {"idle", "returned"}
    /\ apc' = "probing"
    /\ aquery' = query
    /\ probeIdx' = 1
    /\ probeFetch' = "none"
    /\ available' = <<>>
    /\ apis' = <<>>
    /\ calls' = NoCalls
    /\ settled' = <<>>
    /\ consolidated' = NoConsolidated
    /\ UNCHANGED <<engineVars, sideVars, traversalVars, queryVars, prev, hasKey, aprev>>

\* probeConnectivity: the next provider is probed through fetchWithTimeout; the
\* weather provider is skipped without a key
A_ProbeSend ==
    /\ apc = "probing" /\ probeFetch = "none" /\ probeIdx <= Len(ProviderOrder)
    /\ IF ProviderOrder[probeIdx] = "openweather" /\ ~hasKey
       THEN probeIdx' = probeIdx + 1 /\ UNCHANGED probeFetch
       ELSE probeFetch' = "pending" /\ UNCHANGED probeIdx
    /\ UNCHANGED <<engineVars, sideVars, traversalVars, queryVars, prev, apc, aquery, hasKey,
                   available, apis, calls, settled, consolidated, aprev>>

\* the provider answers the probe (r.ok or not), or the fetch is rejected
A_ProbeResponse(outcome) ==
    /\ apc = "probing" /\ probeFetch = "pending"
    /\ available' = IF outcome = "ok" THEN Append(available, ProviderOrder[probeIdx])
                    ELSE available
    /\ probeFetch' = "none"
    /\ probeIdx' = probeIdx + 1
    /\ UNCHANGED <<engineVars, sideVars, traversalVars, queryVars, prev, apc, aquery, hasKey,
                   apis, calls, settled, consolidated, aprev>>

\* fetchWithTimeout: the timer aborts the pending fetch, which rejects
A_ProbeTimeout ==
    /\ apc = "probing" /\ probeFetch = "pending"
    /\ probeFetch' = "none"
    /\ probeIdx' = probeIdx + 1
    /\ UNCHANGED <<engineVars, sideVars, traversalVars, queryVars, prev, apc, aquery, hasKey,
                   available, apis, calls, settled, consolidated, aprev>>

\* the search promise of one selected provider, as queryAPIs creates it: searchWeather
\* returns null at once without a key, every other search awaits its fetch
FirstState(api) ==
    IF api = "openweather" /\ ~hasKey THEN Promise("fulfilled", NullResult)
    ELSE Promise("pending", NullResult)

\* the probes are over: without an available provider handleQuery returns the local
\* fallback, otherwise it selects the providers and queryAPIs starts every search
A_ProbeDone ==
    /\ apc = "probing" /\ probeFetch = "none" /\ probeIdx > Len(ProviderOrder)
    /\ IF available = <<>>
       THEN /\ consolidated' = fallbackLocalKnowledge(aquery)
            /\ apc' = "returned"
            /\ UNCHANGED <<apis, calls, settled>>
       ELSE LET selected == selectRelevantAPIs(analyzeEnhancedQuery(aquery))
            IN  /\ apis' = selected
                /\ calls' = [api \in Providers |->
                                IF api \in Range(selected) THEN FirstState(api)
                                ELSE Promise("none", NullResult)]
                /\ settled' = SelectSeq(selected,
                                        LAMBDA api : FirstState(api).state = "fulfilled")
                /\ apc' = "searching"
                /\ UNCHANGED consolidated
    /\ UNCHANGED <<engineVars, sideVars, traversalVars, queryVars, prev, aquery, hasKey, probeIdx,
                   probeFetch, available, aprev>>

\* the provider answers a search: with res.ok the timer is cleared and res.json() is
\* awaited; a status that is not OK or a rejected fetch is caught and gives null
A_SearchResponse(api, outcome) ==
    /\ apc = "searching" /\ calls[api].state = "pending"
    /\ IF outcome = "ok"
       THEN /\ calls' = [calls EXCEPT ![api] = Promise("body", NullResult)]
            /\ UNCHANGED settled
       ELSE /\ calls' = [calls EXCEPT ![api] = Promise("fulfilled", NullResult)]
            /\ settled' = Append(settled, api)
    /\ UNCHANGED <<engineVars, sideVars, traversalVars, queryVars, prev, apc, aquery, hasKey,
                   probeIdx, probeFetch, available, apis, consolidated, aprev>>

\* fetchWithTimeout: the timer aborts the pending fetch; the search catches and gives null
A_SearchTimeout(api) ==
    /\ apc = "searching" /\ calls[api].state = "pending"
    /\ calls' = [calls EXCEPT ![api] = Promise("fulfilled", NullResult)]
    /\ settled' = Append(settled, api)
    /\ UNCHANGED <<engineVars, sideVars, traversalVars, queryVars, prev, apc, aquery, hasKey,
                   probeIdx, probeFetch, available, apis, consolidated, aprev>>

\* the body of the response has arrived: res.json() gives the data, or rejects on a body
\* that is no JSON, which the search catches
A_SearchBody(api, data) ==
    /\ apc = "searching" /\ calls[api].state = "body"
    /\ calls' = [calls EXCEPT ![api] = Promise("fulfilled", data)]
    /\ settled' = Append(settled, api)
    /\ UNCHANGED <<engineVars, sideVars, traversalVars, queryVars, prev, apc, aquery, hasKey,
                   probeIdx, probeFetch, available, apis, consolidated, aprev>>

\* every search promise has settled: queryAPIs returns, consolidateData builds the
\* answer and handleQuery returns
A_Consolidate ==
    /\ apc = "searching"
    /\ \A i \in DOMAIN apis : calls[apis[i]].state = "fulfilled"
    /\ LET results == ResultsInSelectionOrder(apis, calls, settled)
       IN  consolidated' =
               consolidateData(aquery, results,
                               <<"connectivityProbe", "analysis", "selectedAPIs",
                                 "apiResultsSummary">>)
    /\ apc' = "returned"
    /\ UNCHANGED <<engineVars, sideVars, traversalVars, queryVars, prev, aquery, hasKey, probeIdx,
                   probeFetch, available, apis, calls, settled, aprev>>

\* an observer keeps a handleQuery that went through queryAPIs, to compare it with a
\* later one
A_Remember ==
    /\ apc = "returned" /\ apis # <<>>
    /\ ~aprev.valid
    /\ aprev' = [valid |-> TRUE, query |-> aquery, apis |-> apis, calls |-> calls,
                 settled |-> settled, consolidated |-> consolidated]
    /\ UNCHANGED <<engineVars, sideVars, traversalVars, queryVars, prev, apc, aquery, hasKey,
                   probeIdx, probeFetch, available, apis, calls, settled, consolidated>>

\* no handleQuery has been made
AggregatorIdle ==
    /\ apc = "idle"
    /\ aquery = <<>>
    /\ probeIdx = 1
    /\ probeFetch = "none"
    /\ available = <<>>
    /\ apis = <<>>
    /\ calls = NoCalls
    /\ settled = <<>>
    /\ consolidated = NoConsolidated
    /\ aprev = NoEarlier

---------------------------------------------------------------------------
(* IndependentWebSearch of src/unnamed/part_003: the fact check and the    *)
(* synthesized answer.  A search result is [url, snippet, recent]; recent  *)
(* stands for "its timestamp is less than a week old".  The verdict's      *)
(* confidence is in hundredths.  The answer is the list of the pieces      *)
(* appended to it, each [kind, text].                                      *)

InspectLimit == 5
VerifiedMinimum == 2
MinClaimWordLength == 3
PerspectiveMinLength == 50
PerspectiveLength == 100

factualPatterns == << <<"i","s">>, <<"w","a","s">>, <<"h","a","s">>, <<"w","i","l","l">>, <<"c",
    "a","n">> >>

contradictionWords ==
    << <<"n","o","t">>, <<"f","a","l","s","e">>, <<"i","n","c","o","r","r","e","c","t">>, <<"w",
        "r","o","n","g">>, <<"d","i","s","p","u","t","e","d">>, <<"d","e","b","u","n","k","e",
        "d">> >>

\* the first index of s at or after from where /word (.+)/i matches, 0 if none:
\* the word in either case, a space, and a character that ends no line
MatchStart(s, word, from) ==
    LET starts == {i \in from..Len(s) :
                      /\ i + Len(word) + 1 <= Len(s)
                      /\ ToLowerCase(SubSeq(s, i, i + Len(word) - 1)) = word
                      /\ s[i + Len(word)] = " "
                      /\ s[i + Len(word) + 1] # "\n"}
    IN  IF starts = {} THEN 0 ELSE CHOOSE i \in starts : \A j \in starts : i <= j

\* the end of the line that holds index i
LineEnd(s, i) ==
    LET breaks == {j \in i..Len(s) : s[j] = "\n"}
    IN  IF breaks = {} THEN Len(s) ELSE (CHOOSE j \in breaks : \A k \in breaks : j <= k) - 1

\* query.match(/word (.+)/gi): every match, each running to the end of its line
RECURSIVE FactualMatches(_, _, _)
FactualMatches(s, word, from) ==
    IF MatchStart(s, word, from) = 0 THEN <<>>
    ELSE <<SubSeq(s, MatchStart(s, word, from), LineEnd(s, MatchStart(s, word, from)))>>
         \o FactualMatches(s, word, LineEnd(s, MatchStart(s, word, from)) + 1)

RECURSIVE ClaimsFrom(_, _)
ClaimsFrom(query, k) ==
    IF k > Len(factualPatterns) THEN <<>>
    ELSE FactualMatches(query, factualPatterns[k], 1) \o ClaimsFrom(query, k + 1)

extractClaims(query) ==
    IF Len(ClaimsFrom(query, 1)) > 0 THEN ClaimsFrom(query, 1) ELSE <<query>>

claimSupported(claim, text) ==
    \E word \in Range(SplitWhitespace(ToLowerCase(claim))) :
        /\ Len(word) > MinClaimWordLength
        /\ Includes(ToLowerCase(text), word)

\* a contradiction word alone
claimContradicted(claim, text) ==
    \E word \in Range(contradictionWords) : Includes(ToLowerCase(text), word)

claimDisputed(claim, text) ==
    /\ \E word \in Range(contradictionWords) : Includes(ToLowerCase(text), word)
    /\ claimSupported(claim, text)

\* results.slice(0, 5)
Inspected(results) == Slice0(results, InspectLimit)

\* the verdict and the record verifyClaim returns
FactCheckResult(claim, supporting, disputing) ==
    IF Len(supporting) >= VerifiedMinimum /\ Len(disputing) = 0
    THEN [claim |-> claim, verdict |-> "verified", sources |-> supporting \o disputing,
          confidence |-> Min2(90, Len(supporting) * 30)]
    ELSE IF Len(disputing) > Len(supporting)
    THEN [claim |-> claim, verdict |-> "disputed", sources |-> supporting \o disputing,
          confidence |-> Min2(80, Len(disputing) * 20)]
    ELSE [claim |-> claim, verdict |-> "unverified", sources |-> supporting \o disputing,
          confidence |-> 30]

Piece(kind, text) == [kind |-> kind, text |-> text]

\* results.slice(1, 3).filter(snippet.length > 50).map(substring(0, 100) + "...")
Perspectives(results) ==
    LET long == SelectSeq(SubSeq(results, 2, Min2(3, Len(results))),
                          LAMBDA r : Len(r.snippet) > PerspectiveMinLength)
    IN  [i \in DOMAIN long |-> Substring0(long[i].snippet, PerspectiveLength) \o <<".",".",".">>]

synthesizeAnswer(query, results, checks) ==
    IF Len(results) = 0 THEN <<Piece("nothing found", <<>>)>>
    ELSE <<Piece("Based on current web sources: ", results[1].snippet)>>
         \o (IF \E i \in DOMAIN checks : checks[i].verdict = "verified"
             THEN <<Piece("Verified information", <<>>)>> ELSE <<>>)
         \o (IF \E i \in DOMAIN checks : checks[i].verdict = "disputed"
             THEN <<Piece("Note: disputed", <<>>)>> ELSE <<>>)
         \o (IF Len(results) > 1 /\ Len(Perspectives(results)) > 0
             THEN <<Piece("Additional perspectives: ", Join(Perspectives(results), <<" ">>))>>
             ELSE <<>>)
         \o (IF \E i \in DOMAIN results : results[i].recent
             THEN <<Piece("recent information", <<>>)>> ELSE <<>>)

\* search() up to the first claim of performFactCheck; the providers' results are
\* taken as they are after deduplicateAndRank
W_Search(query, results) ==
    /\ wpc \in {"idle", "done"}
    /\ wquery' = query
    /\ uniqueResults' = results
    /\ claims' = extractClaims(query)
    /\ claimIdx' = 1
    /\ resultIdx' = 1
    /\ supportingSources' = <<>>
    /\ disputingSources' = <<>>
    /\ factCheck' = <<>>
    /\ synthesizedAnswer' = <<>>
    /\ wpc' = "verify"
    /\ UNCHANGED <<engineVars, chatVars, aggVars, traversalVars, queryVars, prev>>

\* one iteration of the loop of verifyClaim
W_Inspect ==
    /\ wpc = "verify" /\ claimIdx <= Len(claims)
    /\ resultIdx <= Len(Inspected(uniqueResults))
    /\ LET claim == claims[claimIdx]
           res == uniqueResults[resultIdx]
       IN  IF claimSupported(claim, res.snippet)
           THEN /\ supportingSources' = Append(supportingSources, res.url)
                /\ UNCHANGED disputingSources
           ELSE IF claimDisputed(claim, res.snippet)
           THEN /\ disputingSources' = Append(disputingSources, res.url)
                /\ UNCHANGED supportingSources
           ELSE UNCHANGED <<supportingSources, disputingSources>>
    /\ resultIdx' = resultIdx + 1
    /\ UNCHANGED <<engineVars, chatVars, aggVars, traversalVars, queryVars, prev, wpc, wquery,
                   uniqueResults, claims, claimIdx, factCheck, synthesizedAnswer>>

\* the loop of verifyClaim is over: the verdict is pushed and the next claim begins
W_Verdict ==
    /\ wpc = "verify" /\ claimIdx <= Len(claims)
    /\ resultIdx > Len(Inspected(uniqueResults))
    /\ factCheck' = Append(factCheck, FactCheckResult(claims[claimIdx], supportingSources,
                                                     disputingSources))
    /\ claimIdx' = claimIdx + 1
    /\ resultIdx' = 1
    /\ supportingSources' = <<>>
    /\ disputingSources' = <<>>
    /\ wpc' = IF claimIdx = Len(claims) THEN "synthesize" ELSE "verify"
    /\ UNCHANGED <<engineVars, chatVars, aggVars, traversalVars, queryVars, prev, wquery,
                   uniqueResults, claims, synthesizedAnswer>>

\* synthesizeAnswer, and search() returns
W_Synthesize ==
    /\ wpc = "synthesize"
    /\ synthesizedAnswer' = synthesizeAnswer(wquery, uniqueResults, factCheck)
    /\ wpc' = "done"
    /\ UNCHANGED <<engineVars, chatVars, aggVars, traversalVars, queryVars, prev, wquery,
                   uniqueResults, claims, claimIdx, resultIdx, supportingSources,
                   disputingSources, factCheck>>

\* no search has been made
WebIdle ==
    /\ wpc = "idle"
    /\ wquery = <<>>
    /\ uniqueResults = <<>>
    /\ claims = <<>>
    /\ claimIdx = 1
    /\ resultIdx = 1
    /\ supportingSources = <<>>
    /\ disputingSources = <<>>
    /\ factCheck = <<>>
    /\ synthesizedAnswer = <<>>

---------------------------------------------------------------------------
(* ConversationalAI of src/unnamed/part_003: generateResponse and the      *)
(* conversation flow.  A ConversationContext object is kept with the two   *)
(* fields the flow reads and writes, its history and its phase; the        *)
(* topic, the preferences and the flow's confidence depend on them in no   *)
(* way and are left out.  The complexity of an input is in 1/400.          *)

ComplexityScale == 400
DeepDiveComplexity == 240
ClarifyingHistory == 3
TechnicalTermLength == 8

\* \b before index i and after index j of s
BoundaryBefore(s, i) == i = 1 \/ ~IsWordChar(s[i - 1])
BoundaryAfter(s, j) == j = Len(s) \/ ~IsWordChar(s[j + 1])

\* /\b(word)\b/i matches s at index i
WordAt(s, i, word) ==
    /\ i + Len(word) - 1 <= Len(s)
    /\ ToLowerCase(SubSeq(s, i, i + Len(word) - 1)) = word
    /\ BoundaryBefore(s, i)
    /\ BoundaryAfter(s, i + Len(word) - 1)

\* /\b(a|b|...)\b/i.test(s)
TestWords(s, words) ==
    \E i \in DOMAIN s : \E k \in DOMAIN words : WordAt(s, i, words[k])

\* the length of the match of /\b(a|b|...)\b/i at index i, the first alternative
\* winning; 0 if there is none
AlternativeAt(s, i, words) ==
    IF \E k \in DOMAIN words : WordAt(s, i, words[k])
    THEN Len(words[CHOOSE k \in DOMAIN words :
                       /\ WordAt(s, i, words[k])
                       /\ \A j \in 1..(k - 1) : ~WordAt(s, i, words[j])])
    ELSE 0

\* (s.match(/\b(a|b|...)\b/gi) || []).length
RECURSIVE CountWords(_, _, _)
CountWords(s, i, words) ==
    IF i > Len(s) THEN 0
    ELSE IF AlternativeAt(s, i, words) > 0
         THEN 1 + CountWords(s, i + AlternativeAt(s, i, words), words)
         ELSE CountWords(s, i + 1, words)

\* the length of the longest run of characters of a class that starts at index i
RECURSIVE RunLength(_, _, _)
RunLength(s, i, upperOnly) ==
    IF i > Len(s) THEN 0
    ELSE IF (IF upperOnly THEN IsUpper(s[i]) ELSE IsWordChar(s[i]))
         THEN 1 + RunLength(s, i + 1, upperOnly)
         ELSE 0

\* the length of the match of /\b[A-Z]{2,}|\w{8,}\b/ at index i, 0 if there is none
TechnicalTermAt(s, i) ==
    IF BoundaryBefore(s, i) /\ RunLength(s, i, TRUE) >= 2 THEN RunLength(s, i, TRUE)
    ELSE IF RunLength(s, i, FALSE) >= TechnicalTermLength THEN RunLength(s, i, FALSE)
    ELSE 0

RECURSIVE CountTechnicalTerms(_, _)
CountTechnicalTerms(s, i) ==
    IF i > Len(s) THEN 0
    ELSE IF TechnicalTermAt(s, i) > 0
         THEN 1 + CountTechnicalTerms(s, i + TechnicalTermAt(s, i))
         ELSE CountTechnicalTerms(s, i + 1)

questionWords ==
    << <<"w","h","a","t">>, <<"h","o","w">>, <<"w","h","y">>, <<"w","h","e","n">>, <<"w","h","e",
        "r","e">>, <<"w","h","o">>, <<"c","a","n">>, <<"c","o","u","l","d">>, <<"w","o","u","l",
        "d">>, <<"s","h","o","u","l","d">> >>
explanationWords == << <<"e","x","p","l","a","i","n">>, <<"d","e","s","c","r","i","b","e">>,
    <<"t","e","l","l"," ","m","e">>, <<"h","e","l","p"," ","m","e"," ","u","n","d","e","r","s",
    "t","a","n","d">> >>
comparisonWords == << <<"c","o","m","p","a","r","e">>, <<"d","i","f","f","e","r","e","n","c",
    "e">>, <<"v","e","r","s","u","s">>, <<"v","s">>, <<"b","e","t","t","e","r">>, <<"w","o","r",
    "s","e">> >>
creationWords == << <<"c","r","e","a","t","e">>, <<"m","a","k","e">>, <<"b","u","i","l","d">>,
    <<"d","e","v","e","l","o","p">>, <<"d","e","s","i","g","n">> >>
learningWords == << <<"l","e","a","r","n">>, <<"s","t","u","d","y">>, <<"t","e","a","c","h">>,
    <<"u","n","d","e","r","s","t","a","n","d">>, <<"k","n","o","w">> >>
casualWords == << <<"h","i">>, <<"h","e","l","l","o">>, <<"h","e","y">>, <<"t","h","a","n","k",
    "s">>, <<"c","o","o","l">>, <<"a","w","e","s","o","m","e">> >>
depthWords == << <<"w","h","y">>, <<"h","o","w">>, <<"w","h","a","t"," ","i","f">>, <<"e","x",
    "p","l","a","i","n">>, <<"a","n","a","l","y","z","e">> >>
conceptWords == << <<"a","n","d">>, <<"o","r">>, <<"b","u","t">>, <<"h","o","w","e","v","e","r">> >>

\* Object.entries(intents).find(([_, matches]) => matches)?.[0] || 'general'
Intent(input) ==
    IF TestWords(input, questionWords) THEN "question"
    ELSE IF TestWords(input, explanationWords) THEN "explanation"
    ELSE IF TestWords(input, comparisonWords) THEN "comparison"
    ELSE IF TestWords(input, creationWords) THEN "creation"
    ELSE IF TestWords(input, learningWords) THEN "learning"
    ELSE IF TestWords(input, casualWords) THEN "casual"
    ELSE "general"

\* four times the complexity, in hundredths: length / 100 capped at 1, technical
\* terms / 10, question depth, multiple concepts / 5; the complexity is a quarter
\* of the sum, capped at 1
assessComplexity(input) ==
    Min2(Min2(Len(input), 100) + 10 * CountTechnicalTerms(input, 1)
         + 100 * CountWords(input, 1, depthWords) + 20 * CountWords(input, 1, conceptWords),
         ComplexityScale)

analyzeInput(input) == [intent |-> Intent(input), complexity |-> assessComplexity(input)]

initializeContext == [conversationHistory |-> <<>>, phase |-> "greeting"]

\* the phase updateConversationFlow returns; context.conversationHistory already
\* holds the new message
updateConversationFlow(context, analysis) ==
    IF context.phase = "greeting" /\ analysis.intent # "casual" THEN "exploring"
    ELSE IF context.phase = "exploring" /\ analysis.complexity > DeepDiveComplexity
    THEN "deep_dive"
    ELSE IF analysis.intent = "question"
            /\ Len(context.conversationHistory) > ClarifyingHistory
    THEN "clarifying"
    ELSE context.phase

Message(input, analysis) == [role |-> "user", content |-> input, intent |-> analysis.intent]

\* updateContext: push the user's message, then update the flow
updateContext(context, input, analysis) ==
    [conversationHistory |-> Append(context.conversationHistory, Message(input, analysis)),
     phase |-> updateConversationFlow(
                   [context EXCEPT !.conversationHistory =
                        Append(context.conversationHistory, Message(input, analysis))],
                   analysis)]

SessionKeys == {"anonymous-default"}
MaxCalls == 5
MaxInFlight == 2

\* the messages pushed so far, one by each call made
RECURSIVE MessagesIn(_)
MessagesIn(objects) ==
    IF objects = <<>> THEN 0
    ELSE Len(Head(objects).conversationHistory) + MessagesIn(Tail(objects))

\* this.conversationMemory.get(contextKey) || this.initializeContext(...): the
\* index of the object the call works on, a new one if the map has none
ContextOf(key) ==
    IF conversationMemory[key] # 0 THEN conversationMemory[key] ELSE Len(contexts) + 1

\* generateResponse up to its await at line 637: the context is fetched or made,
\* the input analysed and the context object updated in place
G_Begin(key, input) ==
    /\ Len(inFlight) < MaxInFlight
    /\ MessagesIn(contexts) < MaxCalls
    /\ LET id == ContextOf(key)
           context == IF id <= Len(contexts) THEN contexts[id] ELSE initializeContext
       IN  /\ contexts' = [i \in 1..Max2(id, Len(contexts)) |->
                              IF i = id THEN updateContext(context, input, analyzeInput(input))
                              ELSE contexts[i]]
           /\ inFlight' = Append(inFlight, [key |-> key, context |-> id])
    /\ UNCHANGED <<engineVars, webVars, aggVars, traversalVars, queryVars, prev,
                   conversationMemory, replies>>

\* generateResponse after its await: the context is stored and returned
G_End(n) ==
    /\ n \in DOMAIN inFlight
    /\ conversationMemory' = [conversationMemory EXCEPT ![inFlight[n].key] =
                                 inFlight[n].context]
    /\ replies' = [replies EXCEPT ![inFlight[n].key] =
                      Append(@, contexts[inFlight[n].context].phase)]
    /\ inFlight' = SubSeq(inFlight, 1, n - 1) \o SubSeq(inFlight, n + 1, Len(inFlight))
    /\ UNCHANGED <<engineVars, webVars, aggVars, traversalVars, queryVars, prev, contexts>>

\* no generateResponse has been made
ChatIdle ==
    /\ conversationMemory = [key \in SessionKeys |-> 0]
    /\ contexts = <<>>
    /\ inFlight = <<>>
    /\ replies = [key \in SessionKeys |-> <<>>]

---------------------------------------------------------------------------
(* query and POST *)

\* A JavaScript value is [type, value]; the value of a string is its characters,
\* that of a number its decimal digits.
JsString(s) == [type |-> "string", value |-> s]
JsNumber(n) == [type |-> "number", value |-> DecimalString(n)]
JsUndefined == [type |-> "undefined", value |-> <<>>]
JsNull == [type |-> "null", value |-> <<>>]
JsArray == [type |-> "object", value |-> <<"[", "]">>]

\* !value
Falsy(v) ==
    \/ v.type \in {"undefined", "null"}
    \/ (v.type = "string" /\ v.value = <<>>)
    \/ (v.type = "number" /\ v.value = <<"0">>)

\* options.name || dflt: an option is a number, and 0 is falsy
EmptyOptions == [name \in {} |-> 0]
OptionUnlessAbsent(opts, name, dflt) ==
    IF name \in DOMAIN opts THEN opts[name] ELSE dflt

Option(opts, name, dflt) ==
    IF name \in DOMAIN opts /\ opts[name] # 0 THEN opts[name] ELSE dflt

DefaultTopK == 8
DefaultMaxDepth == 4
DefaultMinConfidence == 70
TopKOf(opts) == Option(opts, "topK", DefaultTopK)
MaxDepthOf(opts) == Option(opts, "maxDepth", DefaultMaxDepth)
MinConfidenceOf(opts) == Option(opts, "minConfidence", DefaultMinConfidence)

NoRequest == [kind |-> "none", question |-> JsUndefined, options |-> EmptyOptions]
NoResponse == [status |-> 0, error |-> ""]

TraceItemUntyped(type, info) == [type |-> "event", info |-> info]
TraceItem(type, info) == [type |-> type, info |-> info]

\* what query() returns, as far as it is compared between calls
QueryResult == [docs |-> docs, path |-> graphPath, rulesFired |-> rulesFired,
                answer |-> answer]

\* entry of query(): the locals of the call
BeginQuery(q, opts) ==
    /\ question' = q
    /\ options' = opts
    /\ qpc' = "retrieval"
    /\ docs' = <<>>
    /\ entities' = <<>>
    /\ graphPath' = <<>>
    /\ rulesFired' = <<>>
    /\ answer' = <<>>
    /\ trace' = <<>>
    /\ stages' = <<>>
    /\ response' = NoResponse

\* the handler answers without calling query()
Reply(status, error) ==
    /\ response' = [status |-> status, error |-> error]
    /\ qpc' = "done"
    /\ question' = JsUndefined
    /\ options' = EmptyOptions
    /\ docs' = <<>>
    /\ entities' = <<>>
    /\ graphPath' = <<>>
    /\ rulesFired' = <<>>
    /\ answer' = <<>>
    /\ trace' = <<>>
    /\ stages' = <<>>

\* if (!question || typeof question !== 'string')
RejectsFalsyOnly(q) == Falsy(q)
InvalidQuestion(q) == Falsy(q) \/ q.type # "string"

\* if (question.length > 1000)
MaxQuestionLength == 1000
TooLong(q) == q.type = "string" /\ Len(q.value) > MaxQuestionLength

\* POST: request.json() and the destructuring throw on a body that is no JSON object
\* and the catch block answers 500; otherwise validate, then call query()
Post(body) ==
    /\ qpc \in {"idle", "done"}
    /\ request' = body
    /\ IF body.kind # "object"
       THEN Reply(500, "Internal server error during deep reasoning")
       ELSE IF InvalidQuestion(body.question)
       THEN Reply(400, "Question is required and must be a string")
       ELSE IF TooLong(body.question)
       THEN Reply(400, "Question too long. Please limit to 1000 characters.")
       ELSE BeginQuery(body.question, body.options)
    /\ tpc' = "idle"
    /\ prev' = [prev EXCEPT !.earlier = prev.valid]
    /\ UNCHANGED <<engineVars, sideVars, aggVars, startEntities, maxDepth, minConfidence, seedIdx, stack,
                   visited, path, result>>

\* ultimateEngine.query(question, options) called on its own
Call(q, opts) ==
    /\ qpc \in {"idle", "done"}
    /\ request' = [kind |-> "call", question |-> JsString(q), options |-> opts]
    /\ BeginQuery(JsString(q), opts)
    /\ tpc' = "idle"
    /\ prev' = [prev EXCEPT !.earlier = prev.valid]
    /\ UNCHANGED <<engineVars, sideVars, aggVars, startEntities, maxDepth, minConfidence, seedIdx, stack,
                   visited, path, result>>

\* Step 1: the trace entry, then multiAlgorithmSearch; a question that is no string
\* makes advancedEmbed throw, which POST turns into a 500
Q_Retrieval ==
    /\ qpc = "retrieval"
    /\ trace' = Append(trace, TraceItem("advanced-retrieval", [question |-> question.value]))
    /\ stages' = Append(stages, "retrieval")
    /\ IF question.type # "string"
       THEN /\ response' = [status |-> 500,
                            error |-> "Internal server error during deep reasoning"]
            /\ qpc' = "done"
            /\ UNCHANGED docs
       ELSE /\ docs' = multiAlgorithmSearch(question.value, TopKOf(options))
            /\ qpc' = "extraction"
            /\ UNCHANGED response
    /\ UNCHANGED <<engineVars, sideVars, aggVars, traversalVars, request, question, options, entities,
                   graphPath, rulesFired, answer, prev>>

\* Step 2: the trace entry, then advancedEntityExtraction
Q_Extraction ==
    /\ qpc = "extraction"
    /\ trace' = Append(trace, TraceItem("entity-extraction", [patterns |-> 3]))
    /\ stages' = Append(stages, "extraction")
    /\ entities' = advancedEntityExtraction(question.value)
    /\ qpc' = "traversal"
    /\ UNCHANGED <<engineVars, sideVars, aggVars, traversalVars, request, question, options, docs,
                   graphPath, rulesFired, answer, response, prev>>

\* Step 3: with an entity, the trace entry and the call of deepGraphTraversal
Q_Traversal ==
    /\ qpc = "traversal"
    /\ IF Len(entities) > 0
       THEN /\ trace' = Append(trace, TraceItem("deep-graph-traversal",
                                  [startEntities |-> entities,
                                   maxDepth |-> MaxDepthOf(options),
                                   minConfidence |-> MinConfidenceOf(options)]))
            /\ stages' = Append(stages, "traversal")
            /\ StartTraversal(entities, MaxDepthOf(options), MinConfidenceOf(options))
            /\ qpc' = "traversing"
       ELSE /\ qpc' = "rules"
            /\ UNCHANGED <<trace, stages, traversalVars>>
    /\ UNCHANGED <<engineVars, sideVars, aggVars, request, question, options, docs, entities, graphPath,
                   rulesFired, answer, response, prev>>

\* deepGraphTraversal has returned (or was not called); Step 4: advancedRuleEngine,
\* and its trace entry when a rule fired
Q_Rules ==
    /\ \/ qpc = "rules"
       \/ qpc = "traversing" /\ tpc = "done"
    /\ LET found == IF qpc = "traversing" THEN result ELSE <<>>
           fired == advancedRuleEngine(question.value, docs, entities)
       IN  /\ graphPath' = found
           /\ rulesFired' = fired
           /\ trace' = IF Len(fired) > 0
                       THEN Append(trace, TraceItem("advanced-rule-inference",
                                                    [fired |-> fired]))
                       ELSE trace
    /\ stages' = Append(stages, "rules")
    /\ qpc' = "synthesis"
    /\ UNCHANGED <<engineVars, sideVars, aggVars, traversalVars, request, question, options, docs, entities,
                   answer, response, prev>>

\* Steps 5 to 7 and the return: the answer, the last trace entry, the response
Q_Synthesis ==
    /\ qpc = "synthesis"
    /\ answer' = synthesizeIntelligentAnswer(question.value, docs, graphPath, entities)
    /\ trace' = Append(trace, TraceItem("deep-synthesis",
                          [docsFound |-> Len(docs), entitiesExtracted |-> Len(entities),
                           graphHops |-> Len(graphPath),
                           rulesApplied |-> Len(rulesFired)]))
    /\ stages' = Append(stages, "synthesis")
    /\ response' = [status |-> 200, error |-> ""]
    /\ qpc' = "done"
    /\ UNCHANGED <<engineVars, sideVars, aggVars, traversalVars, request, question, options, docs, entities,
                   graphPath, rulesFired, prev>>

\* an observer keeps the result of a completed call with default options, to compare
\* it with the result of a later call (earlier: a request has begun since)
Remember ==
    /\ qpc = "done"
    /\ response.status = 200
    /\ options = EmptyOptions
    /\ prev' = [valid |-> TRUE, earlier |-> FALSE,
                input |-> [question |-> question, options |-> options],
                output |-> QueryResult]
    /\ prev' # prev
    /\ UNCHANGED <<engineVars, sideVars, aggVars, traversalVars, queryVars>>

\* multiAlgorithmSearch(question, topK) called on its own; the observer keeps the
\* call before it
Search(k) ==
    /\ qpc \in {"idle", "done"}
    /\ request' = [kind |-> "search", question |-> question, options |-> [topK |-> k]]
    /\ options' = [topK |-> k]
    /\ docs' = multiAlgorithmSearch(question.value, k)
    /\ qpc' = "done"
    /\ prev' = IF qpc = "done"
               THEN [valid |-> TRUE, earlier |-> TRUE,
                     input |-> [question |-> question, options |-> options],
                     output |-> [docs |-> docs, path |-> <<>>, rulesFired |-> <<>>,
                                 answer |-> <<>>]]
               ELSE prev
    /\ UNCHANGED <<engineVars, sideVars, aggVars, traversalVars, question, entities, graphPath, rulesFired,
                   answer, trace, stages, response>>

---------------------------------------------------------------------------
(* Sample inputs *)

\* questions
Q_Empty == <<>>
Q_Short == <<"A","I">>
Q_What == <<"W","h","a","t"," ","i","s"," ","G","H","C","h","a","i","n">>
Q_Explain == <<"E","x","p","l","a","i","n"," ","G","H"," ","G","O","L","D"," ","s","t","a","k","i","n","g"," ","a","n","d"," ","D","e","F","i"," ","i","n"," ","A","f","r","i","c","a">>
Q_Africa == <<"A","f","r","i","c","a">>
Q_Statistics == <<"p","r","o","b","a","b","i","l","i","t","y"," ","a","n","d"," ","s","t","a","t","i","s","t","i","c","s"," ","o","f"," ","m","a","r","k","e","t","s">>

SampleQuestions == {Q_Empty, Q_Short, Q_What, Q_Explain, Q_Africa, Q_Statistics}

\* a question of 1001 characters
LongQuestion == [i \in 1..(MaxQuestionLength + 1) |-> "a"]

\* options objects
SampleOptions ==
    { EmptyOptions,
      [topK |-> 3],
      [topK |-> 0, maxDepth |-> 2, minConfidence |-> 80] }

\* tables of the three vector similarities, one entry per document of the corpus
Sim(c, e, m) == [cosine |-> c, euclidean |-> e, manhattan |-> m]

\* every document well above the floor
Near == <<Sim(90, 50, 30), Sim(85, 45, 25), Sim(80, 40, 20), Sim(75, 40, 20), Sim(70, 35, 15),
         Sim(65, 30, 10)>>

\* the fourth document far from the query
FourAbove == <<Sim(60, 30, 20), Sim(70, 35, 20), Sim(50, 30, 10), Sim(10, 5, 0), Sim(55, 30, 10),
         Sim(0, 0, 0)>>

\* the third document scores 0.4 * 0.2 + 0.2 * 0.1 = 0.1 before its boosts
AtFloor == <<Sim(60, 30, 20), Sim(5, 5, 0), Sim(20, 10, 0), Sim(40, 20, 10), Sim(10, 0, 0),
         Sim(0, 0, 0)>>

\* the first two documents alike
Tie == <<Sim(50, 30, 10), Sim(50, 30, 10), Sim(10, 5, 0), Sim(50, 30, 10), Sim(0, 0, 0),
         Sim(0, 0, 0)>>

\* no document near the query
Far == <<Sim(0, 0, 0), Sim(0, 0, 0), Sim(0, 0, 0), Sim(0, 0, 0), Sim(0, 0, 0),
         Sim(0, 0, 0)>>

\* POST bodies: text that is no JSON, the JSON value null, and objects
Body(q, opts) == [kind |-> "object", question |-> q, options |-> opts]

MalformedBodies ==
    { [kind |-> "invalid", question |-> JsUndefined, options |-> EmptyOptions],
      [kind |-> "null", question |-> JsUndefined, options |-> EmptyOptions],
      Body(JsUndefined, EmptyOptions),
      Body(JsNull, EmptyOptions),
      Body(JsNumber(42), EmptyOptions),
      Body(JsNumber(0), EmptyOptions),
      Body(JsArray, EmptyOptions),
      Body(JsString(Q_Empty), EmptyOptions),
      Body(JsString(LongQuestion), EmptyOptions) }

SampleBodies ==
    MalformedBodies \cup {Body(JsString(q), opts) : q \in SampleQuestions \ {Q_Empty},
                                                   opts \in SampleOptions}

\* the graphs and seed lists the traversal is exercised on
TraversalInputs ==
    { <<Cycle3, <<N_A>>>>, <<Cycle3, <<N_C, N_A>>>>,
      <<Diamond, <<N_A>>>>, <<Diamond, <<N_D, N_A>>>>,
      <<KnowledgeFragment, <<KG_GHChain.subject>>>>,
      <<KnowledgeFragment, <<KG_GHGOLD.subject, <<"W","h","a","t">>, KG_GHChain.subject>>>>,
      <<KnowledgeFragment, <<>>>>,
      <<Star, <<N_H>>>> }

\* no request has been made
QueryLocalsIdle ==
    /\ request = NoRequest
    /\ qpc = "idle"
    /\ options = EmptyOptions
    /\ docs = <<>>
    /\ entities = <<>>
    /\ graphPath = <<>>
    /\ rulesFired = <<>>
    /\ answer = <<>>
    /\ trace = <<>>
    /\ stages = <<>>
    /\ response = NoResponse

QueryIdle == question = JsUndefined /\ QueryLocalsIdle

\* no traversal has been made
TraversalIdle ==
    /\ startEntities = <<>>
    /\ maxDepth = 0
    /\ minConfidence = 0
    /\ tpc = "idle"
    /\ seedIdx = 1
    /\ stack = <<>>
    /\ visited = EmptyMap
    /\ path = <<>>
    /\ result = <<>>

InitTraverse ==
    /\ \E in \in TraversalInputs :
          /\ graph = in[1]
          /\ conceptGraph = BuildConceptGraph(in[1])
          /\ startEntities = in[2]
    /\ maxDepth \in 0..MaxDepthBound
    /\ minConfidence = 0
    /\ tpc = "idle"
    /\ seedIdx = 1
    /\ stack = <<>>
    /\ visited = EmptyMap
    /\ path = <<>>
    /\ result = <<>>
    /\ similarity = Near
    /\ QueryIdle
    /\ prev = NoPrev
    /\ AggregatorIdle /\ WebIdle /\ ChatIdle /\ hasKey = FALSE

NextTraverse ==
    \/ \E conf \in SampleMinConfidence : T_Call(conf)
    \/ T_NextSeed
    \/ T_Enter
    \/ T_Relation
    \/ T_Concept
    \/ T_Finish

SpecTraverse == InitTraverse /\ [][NextTraverse]_vars /\ WF_vars(TraverseStep)

\* seed lists with names that are no key of the graph
AbsentSeedInputs ==
    { <<>>,
      <<<<"W","h","a","t">>>>,
      <<KG_GHChain.subject, <<"W","h","a","t">>>>,
      <<<<"c","o","n","s","t","r","u","c","t","o","r">>>>,
      <<KG_GHChain.subject, <<"t","o","S","t","r","i","n","g">>>>,
      <<<<"W","h","a","t">>, <<"_","_","p","r","o","t","o","_","_">>, KG_GHGOLD.subject>> }

InitSeeds ==
    /\ graph = KnowledgeFragment
    /\ conceptGraph = BuildConceptGraph(KnowledgeFragment)
    /\ startEntities \in AbsentSeedInputs
    /\ maxDepth \in 0..MaxDepthBound
    /\ minConfidence = 0
    /\ tpc = "idle"
    /\ seedIdx = 1
    /\ stack = <<>>
    /\ visited = EmptyMap
    /\ path = <<>>
    /\ result = <<>>
    /\ similarity = Near
    /\ QueryIdle
    /\ prev = NoPrev
    /\ AggregatorIdle /\ WebIdle /\ ChatIdle /\ hasKey = FALSE

SpecSeeds == InitSeeds /\ [][NextTraverse]_vars /\ WF_vars(TraverseStep)

\* the engine after construction, serving requests
NoQueryPrev ==
    [valid |-> FALSE, earlier |-> FALSE,
     input |-> [question |-> JsUndefined, options |-> EmptyOptions],
     output |-> [docs |-> <<>>, path |-> <<>>, rulesFired |-> <<>>, answer |-> <<>>]]

CallQuestions == {Q_Empty, Q_Africa}

Init ==
    /\ graph = KnowledgeFragment
    /\ conceptGraph = BuildConceptGraph(KnowledgeFragment)
    /\ similarity \in {Near, Far}
    /\ TraversalIdle
    /\ QueryIdle
    /\ prev = NoQueryPrev
    /\ AggregatorIdle /\ WebIdle /\ ChatIdle /\ hasKey = FALSE

Next ==
    \/ \E body \in SampleBodies : Post(body)
    \/ \E q \in CallQuestions : Call(q, EmptyOptions)
    \/ Q_Retrieval
    \/ Q_Extraction
    \/ Q_Traversal
    \/ T_NextSeed
    \/ T_Enter
    \/ T_Relation
    \/ T_Concept
    \/ T_Finish
    \/ Q_Rules
    \/ Q_Synthesis
    \/ Remember

Spec == Init /\ [][Next]_vars

\* the engine called with options that are zero, negative, small and absent
ZeroOptions == [topK |-> 0, maxDepth |-> 0, minConfidence |-> 0]
NegativeOptions == [topK |-> 0 - 100, maxDepth |-> 0 - 1, minConfidence |-> 0 - 100]
SmallOptions == [topK |-> 2, maxDepth |-> 1, minConfidence |-> 1]
OptionSamples == {EmptyOptions, ZeroOptions, NegativeOptions, SmallOptions}
OptionQuestions == {Q_What, Q_Explain}

NextOptions ==
    \/ \E q \in OptionQuestions : \E opts \in OptionSamples : Call(q, opts)
    \/ \E q \in OptionQuestions : \E opts \in OptionSamples : Post(Body(JsString(q), opts))
    \/ Q_Retrieval
    \/ Q_Extraction
    \/ Q_Traversal
    \/ T_NextSeed
    \/ T_Enter
    \/ T_Relation
    \/ T_Concept
    \/ T_Finish
    \/ Q_Rules
    \/ Q_Synthesis
    \/ Remember

SpecOptions == Init /\ [][NextOptions]_vars

\* the engine after construction, searched directly for one question
SampleTopK == {1, 3, 10}

InitSearch ==
    /\ graph = KnowledgeFragment
    /\ conceptGraph = BuildConceptGraph(KnowledgeFragment)
    /\ similarity \in {Near, FourAbove, AtFloor, Tie, Far}
    /\ TraversalIdle
    /\ question \in {JsString(q) : q \in SampleQuestions}
    /\ QueryLocalsIdle
    /\ prev = NoQueryPrev
    /\ AggregatorIdle /\ WebIdle /\ ChatIdle /\ hasKey = FALSE

NextSearch == \E k \in SampleTopK : Search(k)

SpecSearch == InitSearch /\ [][NextSearch]_vars

\* handleQuery served for sample queries, the providers behaving in every way
AQ_Accra == <<"A","c","c","r","a">>
AQ_Moon == <<"w","e","a","t","h","e","r"," ","o","n"," ","t","h","e"," ","m","o","o","n">>
AQ_All == <<"w","h","a","t"," ","i","s"," ","t","h","e"," ","c","l","i","m","a","t","e"," ","o","f"," ","a"," ","p","l","a","n","e","t">>
AQ_GHChain == <<"w","h","e","n"," ","w","a","s"," ","g","h","c","h","a","i","n"," ","m","a","d","e">>

SampleQueries == {AQ_Accra, AQ_Moon, AQ_All, AQ_GHChain}

\* a body that is no JSON makes res.json() reject
SearchBodies(api) == Payloads(api) \cup {NullResult}

InitAggregate ==
    /\ graph = KnowledgeFragment
    /\ conceptGraph = BuildConceptGraph(KnowledgeFragment)
    /\ similarity = Near
    /\ TraversalIdle
    /\ QueryIdle
    /\ prev = NoQueryPrev
    /\ AggregatorIdle /\ WebIdle /\ ChatIdle
    /\ hasKey \in BOOLEAN

\* the steps of the aggregator itself, timers included
AggregatorStep ==
    \/ A_ProbeSend
    \/ A_ProbeTimeout
    \/ A_ProbeDone
    \/ \E api \in Providers : A_SearchTimeout(api)
    \/ A_Consolidate

NextAggregateLive ==
    \/ \E query \in SampleQueries : A_HandleQuery(query)
    \/ A_ProbeSend
    \/ \E outcome \in {"ok", "status", "rejected"} : A_ProbeResponse(outcome)
    \/ A_ProbeTimeout
    \/ A_ProbeDone
    \/ \E api \in Providers : \E outcome \in {"ok", "status", "rejected"} :
           A_SearchResponse(api, outcome)
    \/ \E api \in Providers : A_SearchTimeout(api)
    \/ \E api \in Providers : \E data \in SearchBodies(api) : A_SearchBody(api, data)
    \/ A_Consolidate

NextAggregate ==
    \/ NextAggregateLive
    \/ A_Remember

SpecAggregate == InitAggregate /\ [][NextAggregate]_vars

\* the providers may answer or not; the aggregator's own steps and timers are taken
SpecAggregateLive == InitAggregate /\ [][NextAggregateLive]_vars /\ WF_vars(AggregatorStep)

---------------------------------------------------------------------------
(* The fact checker on sample queries and result lists *)

WQ_Sky == <<"s","k","y"," ","i","s"," ","b","l","u","e">>
WQ_Moon == <<"t","h","e"," ","m","o","o","n"," ","w","a","s"," ","c","h","e","e","s","e">>
WQ_This == <<"t","h","i","s"," ","i","s"," ","f","a","l","s","e">>
WQ_Fly == <<"i","t"," ","c","a","n"," ","f","l","y"," ","a","n","d"," ","i","t"," ","w","i","l",
    "l"," ","l","a","n","d">>
WQ_GHChain == <<"G","H","C","h","a","i","n">>

WebQueries == {WQ_Sky, WQ_Moon, WQ_This, WQ_Fly, WQ_GHChain}

Result(url, snippet, recent) == [url |-> url, snippet |-> snippet, recent |-> recent]

R_Blue == Result("u1", <<"T","h","e"," ","s","k","y"," ","i","s"," ","b","l","u","e">>, TRUE)
R_NotBlue == Result("u2", <<"T","h","e"," ","s","k","y"," ","i","s"," ","n","o","t"," ","b","l",
    "u","e">>, FALSE)
R_Wrong == Result("u3", <<"T","h","i","s"," ","i","s"," ","w","r","o","n","g">>, FALSE)
R_Cheese == Result("u4", <<"T","h","e"," ","m","o","o","n"," ","i","s"," ","n","o","t"," ","c",
    "h","e","e","s","e",","," ","t","h","a","t"," ","c","l","a","i","m"," ","w","a","s"," ","d",
    "e","b","u","n","k","e","d"," ","l","o","n","g"," ","a","g","o"," ","b","y"," ","a","s","t",
    "r","o","n","o","m","e","r","s">>, FALSE)
R_False == Result("u5", <<"T","h","a","t"," ","i","s"," ","f","a","l","s","e">>, TRUE)
R_Land == Result("u6", <<"B","i","r","d","s"," ","c","a","n"," ","f","l","y"," ","a","n","d"," ",
    "l","a","n","d">>, FALSE)
R_NoGHChain == Result("u7", <<"G","H","C","h","a","i","n"," ","i","s"," ","i","n","c","o","r",
    "r","e","c","t"," ","a","n","d"," ","d","i","s","p","u","t","e","d">>, FALSE)

ResultLists ==
    { <<>>,
      <<R_Blue>>,
      <<R_Wrong, R_NotBlue>>,
      <<R_Blue, R_Cheese, R_NotBlue>>,
      <<R_NotBlue, R_Cheese, R_False, R_NoGHChain>>,
      <<R_Wrong, R_Wrong, R_Land, R_Wrong, R_False, R_Blue>> }

InitFactCheck ==
    /\ graph = KnowledgeFragment
    /\ conceptGraph = BuildConceptGraph(KnowledgeFragment)
    /\ similarity = Near
    /\ TraversalIdle
    /\ QueryIdle
    /\ prev = NoQueryPrev
    /\ AggregatorIdle /\ hasKey = FALSE
    /\ WebIdle
    /\ ChatIdle

NextFactCheck ==
    \/ \E query \in WebQueries : \E results \in ResultLists : W_Search(query, results)
    \/ W_Inspect
    \/ W_Verdict
    \/ W_Synthesize

SpecFactCheck == InitFactCheck /\ [][NextFactCheck]_vars

---------------------------------------------------------------------------
(* Conversations on sample inputs *)

In_Hello == <<"h","e","l","l","o">>
In_What == <<"w","h","a","t"," ","i","s"," ","G","H","C","h","a","i","n">>
In_Deep == <<"e","x","p","l","a","i","n"," ","w","h","y"," ","a","n","d"," ","h","o","w"," ","b",
    "l","o","c","k","c","h","a","i","n","s"," ","w","o","r","k">>
In_Analyze == <<"e","x","p","l","a","i","n"," ","a","n","d"," ","a","n","a","l","y","z","e"," ",
    "b","l","o","c","k","c","h","a","i","n">>

SampleInputs == {In_Hello, In_What, In_Deep, In_Analyze}

InitChat == InitFactCheck

NextChat ==
    \/ \E key \in SessionKeys : \E input \in SampleInputs : G_Begin(key, input)
    \/ \E n \in 1..MaxInFlight : G_End(n)

SpecChat == InitChat /\ [][NextChat]_vars

\* every call is awaited before the next one is made
NextChatAwaited ==
    \/ \E key \in SessionKeys : \E input \in SampleInputs :
           inFlight = <<>> /\ G_Begin(key, input)
    \/ \E n \in 1..MaxInFlight : G_End(n)

SpecChatAwaited == InitChat /\ [][NextChatAwaited]_vars

---------------------------------------------------------------------------
(* Claims about deepGraphTraversal *)

TripleSet(r) == {<<r[i].subject, r[i].predicate, r[i].object>> : i \in DOMAIN r}

\* C1: every call of deepGraphTraversal that has started returns, and what it
\* returns is a finite list (of at most ResultCap triples), cyclic graphs included.
C1_TraversalTerminates ==
    /\ [](tpc = "done" => Len(result) <= ResultCap)
    /\ (tpc = "run") ~> (tpc = "done")

\* the walk went round the cycle of weight-1/confidence-1 edges with maxDepth = 5
\* and returned its three edges
C1_CycleWalked ==
    /\ tpc = "done" /\ graph = Cycle3 /\ maxDepth = 5 /\ minConfidence = 0
    /\ \A e \in {N_A, N_B, N_C} : \E i \in DOMAIN result : result[i].subject = e

\* C2: with the graph, the seeds and maxDepth fixed, the call with the larger
\* minConfidence returns a subset of the (subject, predicate, object) triples the
\* call with the smaller minConfidence returns.
C2_StricterThresholdSubset ==
    (tpc = "done" /\ prev.valid) =>
        LET lo == IF prev.input <= minConfidence THEN prev.output ELSE result
            hi == IF prev.input <= minConfidence THEN result ELSE prev.output
        IN  /\ TripleSet(hi) \subseteq TripleSet(lo)
            /\ Len(hi) <= Len(lo)

---------------------------------------------------------------------------
(* Claims about multiAlgorithmSearch *)

\* the documents of the corpus whose score for the question passes the test "> floor",
\* and those whose score is a number "not below" the floor
StrictlyAbove(q) ==
    {i \in DOMAIN comprehensiveKnowledgeBase :
        GreaterThan(compositeScore(q, i), RelevanceFloor)}

NotBelow(q) ==
    {i \in DOMAIN comprehensiveKnowledgeBase :
        ~IsNaN(compositeScore(q, i)) /\ compositeScore(q, i) >= RelevanceFloor}

Searched == request.kind = "search" /\ qpc = "done"

\* two searches in a row for the same question, one with topK = 3 and one with topK = 10
\* (in either order), on a corpus with exactly four documents above the floor
SearchedThreeAndTen ==
    /\ Searched
    /\ prev.valid
    /\ {prev.input.options.topK, options.topK} = {3, 10}
    /\ Cardinality(StrictlyAbove(question.value)) = 4

DocsWith(k) == IF options.topK = k THEN docs ELSE prev.output.docs

\* C6 (as amended): with exactly four documents above the floor, topK = 10 returns
\* the four in descending order of score and topK = 3 returns the first three of them
C6_TopKCutsTheRanking ==
    SearchedThreeAndTen =>
        /\ Len(DocsWith(10)) = 4
        /\ Len(DocsWith(3)) = 3
        /\ DocsWith(3) = SubSeq(DocsWith(10), 1, 3)
        /\ \A n \in 1..3 : DocsWith(10)[n].score >= DocsWith(10)[n + 1].score

C6_ThreeAndTenSearched == SearchedThreeAndTen /\ options.topK = 3

\* C6 (as stated): with exactly four documents above the floor, topK = 3 and
\* topK = 10 return the same four documents in the same order
C6_SameFourDocuments ==
    SearchedThreeAndTen => (DocsWith(3) = DocsWith(10) /\ Len(DocsWith(3)) = 4)

\* what the search returns, given the set of documents that qualify
TopKOfQualifying(qualifying) ==
    LET q == question.value
        returned == {docs[n].id : n \in DOMAIN docs}
    IN  /\ Len(docs) = Min2(options.topK, Cardinality(qualifying))
        /\ \A n \in DOMAIN docs :
               \E i \in qualifying :
                   /\ comprehensiveKnowledgeBase[i].id = docs[n].id
                   /\ compositeScore(q, i) = docs[n].score
        /\ Cardinality(returned) = Len(docs)
        /\ \A n \in DOMAIN docs : \A m \in DOMAIN docs :
               n < m => docs[n].score >= docs[m].score
        /\ \A i \in qualifying :
               comprehensiveKnowledgeBase[i].id \notin returned =>
                   \A n \in DOMAIN docs : docs[n].score >= compositeScore(q, i)

---------------------------------------------------------------------------
(* Claims about query, POST, the rule engine and the synthesizer *)

Returned == qpc = "done" /\ response.status = 200 /\ request.kind \in {"object", "call"}

SameInputAsRemembered ==
    prev.valid /\ prev.input = [question |-> question, options |-> options]

\* C3: a call of query with the question and options of a remembered earlier call
\* returns the same docs, path, rulesFired and answer, whatever calls came between
C3_QueryIdempotent == (Returned /\ SameInputAsRemembered) => QueryResult = prev.output

C3_RepeatedQuery ==
    /\ Returned
    /\ SameInputAsRemembered
    /\ prev.earlier
    /\ Len(docs) > 0
    /\ Len(graphPath) > 0

\* the POST body carries no question, or one that is not a string
QuestionMissingOrNoString ==
    /\ request.kind \in {"invalid", "null", "object"}
    /\ request.kind = "object" =>
           (request.question.type # "string" \/ request.question.value = <<>>)

\* C4: a POST whose question is missing or is not a string is answered with an error
\* (400, or 500 when the body is no JSON object); no stage has run and no trace entry
\* exists
C4_MalformedRejectedFirst ==
    QuestionMissingOrNoString =>
        /\ qpc = "done"
        /\ response.status = (IF request.kind = "object" THEN 400 ELSE 500)
        /\ stages = <<>>
        /\ trace = <<>>
        /\ tpc # "run"

C4_NumberRejected ==
    /\ request.kind = "object"
    /\ request.question.type = "number"
    /\ request.question.value # <<"0">>
    /\ response.status = 400

TraceTypes == [n \in DOMAIN trace |-> trace[n].type]

EmptyQueryReturned == request.kind = "call" /\ question.value = <<>> /\ qpc = "done"

\* C5 (as amended): query("") raises nothing and returns the fallback answer, no
\* document, no path, and a trace of three entries - retrieval, entity extraction and
\* synthesis, the last showing zero documents; sent through POST, an empty question is
\* answered 400 and query is not called
C5_EmptyQueryFallback ==
    /\ EmptyQueryReturned =>
           /\ response.status = 200
           /\ answer = FallbackAnswer(<<>>)
           /\ docs = <<>>
           /\ graphPath = <<>>
           /\ TraceTypes = <<"advanced-retrieval", "entity-extraction", "deep-synthesis">>
           /\ trace[3].info.docsFound = 0
    /\ (request.kind = "object" /\ request.question = JsString(<<>>)) =>
           (response.status = 400 /\ answer = <<>> /\ trace = <<>>)

C5_EmptyQueryServed == EmptyQueryReturned /\ Len(trace) = 3

\* C5 (as stated): an empty-string query returns the fallback answer, no document, no
\* path and a trace of the single retrieval entry
C5_SingleRetrievalEntry ==
    EmptyQueryReturned =>
        /\ answer = FallbackAnswer(<<>>)
        /\ docs = <<>>
        /\ graphPath = <<>>
        /\ TraceTypes = <<"advanced-retrieval">>

\* C8: the answer is never the empty string, and with no document and no path it is
\* the fallback sentence, which contains the query
C8_AnswerNeverEmpty ==
    Returned =>
        /\ answer # <<>>
        /\ (docs = <<>> /\ graphPath = <<>>) =>
               (answer = FallbackAnswer(question.value) /\ Includes(answer, question.value))

C8_DefaultAnswerGiven ==
    /\ Returned
    /\ docs = <<>>
    /\ graphPath # <<>>
    /\ answer = DefaultAnswer

\* the four segments of the answer, each empty when its condition fails
PrimaryPart == IF docs # <<>> THEN PrimarySegment(docs[1]) ELSE <<>>

OtherDomain(n) == DocOf(docs[n]).domain # DocOf(docs[1]).domain

CrossDomainPart ==
    IF \E n \in DOMAIN docs : OtherDomain(n) THEN CrossDomainSegment(docs) ELSE <<>>

RelationshipsPart ==
    IF \E n \in DOMAIN graphPath : graphPath[n].confidence > HighConfidence * Pct
    THEN RelationshipsSegment(graphPath)
    ELSE <<>>

ClosingPart ==
    IF Len(entities) >= 3 /\ Len(graphPath) >= 3
    THEN ClosingSegment(entities, graphPath)
    ELSE <<>>

Segments == PrimaryPart \o CrossDomainPart \o RelationshipsPart \o ClosingPart

RuleIndex(name) == CHOOSE i \in DOMAIN advancedRules : advancedRules[i].name = name

RulesEvaluated == qpc = "synthesis" \/ Returned

\* C10: the fired rules are exactly the rules whose pattern matches the combined text
\* and whose condition holds on the documents and entities, each once, in the order of
\* registration
C10_RulesFireIndependently ==
    RulesEvaluated =>
        LET combinedText == CombinedText(question.value, docs)
        IN  /\ \A i \in DOMAIN advancedRules :
                   (\E n \in DOMAIN rulesFired : rulesFired[n] = advancedRules[i].name)
                   <=> ( /\ PatternTest(advancedRules[i], combinedText)
                         /\ Trigger(advancedRules[i], docs, entities) )
            /\ \A n \in DOMAIN rulesFired : \A m \in DOMAIN rulesFired :
                   n < m => RuleIndex(rulesFired[n]) < RuleIndex(rulesFired[m])

\* three rules fired, and a rule whose pattern matched did not
C10_PatternWithoutCondition ==
    /\ RulesEvaluated
    /\ Len(rulesFired) >= 3
    /\ \E i \in DOMAIN advancedRules :
           /\ PatternTest(advancedRules[i], CombinedText(question.value, docs))
           /\ ~Trigger(advancedRules[i], docs, entities)

---------------------------------------------------------------------------
(* Claims about the trace, the shared state and the totality of the stages *)

FiveStages ==
    <<"advanced-retrieval", "entity-extraction", "deep-graph-traversal",
      "advanced-rule-inference", "deep-synthesis">>

QueryBegins == qpc' = "retrieval" /\ qpc # "retrieval"
TraversalBegins == tpc' = "run" /\ tpc # "run"

\* C12: no step of a query changes the relationship graph, the concept graph or the
\* similarities that come from the stored embeddings (the corpus is a constant); each
\* call of query begins with an empty trace and empty result lists, each call of
\* deepGraphTraversal with an empty visited map and an empty path buffer; and a query
\* run after other queries returns what the same query returned before them
C12_SharedStateReadOnly ==
    /\ [][ /\ engineVars' = engineVars
           /\ QueryBegins =>
                  /\ trace' = <<>>
                  /\ docs' = <<>> /\ entities' = <<>> /\ graphPath' = <<>>
                  /\ rulesFired' = <<>> /\ answer' = <<>>
           /\ TraversalBegins =>
                  (visited' = EmptyMap /\ path' = <<>> /\ stack' = <<>>) ]_vars
    /\ []((Returned /\ SameInputAsRemembered /\ prev.earlier) => QueryResult = prev.output)

\* a query walks the graph after an earlier query has walked it and returned a path
C12_SecondQueryWalking ==
    /\ prev.valid /\ prev.earlier
    /\ prev.output.path # <<>>
    /\ qpc = "traversing" /\ tpc = "run"
    /\ path # <<>>
    /\ visited # EmptyMap

\* a known entity the question names, whatever the case of its letters
Named(entity) ==
    /\ entity \in Range(knownEntities)
    /\ Includes(ToLowerCase(question.value), ToLowerCase(entity))

\* the graph or the concept graph holds an edge from a to b
Linked(a, b) ==
    \/ HasKey(graph, a) /\ \E i \in DOMAIN RelationsOf(graph, a) :
                               RelationsOf(graph, a)[i].target = b
    \/ a \in DOMAIN conceptGraph /\ b \in Range(conceptGraph[a])

IsList(x) == DOMAIN x = 1..Len(x)

\* the call of query is at a point from which its next step can be taken
CanStep ==
    \/ qpc \in {"retrieval", "extraction", "traversal", "rules", "synthesis"}
    \/ /\ qpc = "traversing"
       /\ \/ tpc = "done"
          \/ tpc = "run" /\ stack = <<>>
          \/ tpc = "run" /\ stack # <<>> /\ Top.pc = "enter"
          \/ tpc = "run" /\ stack # <<>> /\ Top.pc = "loop"
                /\ (Top.idx > Len(Top.sortedRelations) \/ Len(stack) < MaxStack)

---------------------------------------------------------------------------
(* Claims about MultiDomainAggregator *)

\* handleQuery has returned after queryAPIs ran
Aggregated == apc = "returned" /\ apis # <<>>

\* the selected providers whose search gave a result
Succeeded == {api \in Range(apis) : calls[api].value.source # "null"}

\* C14: whichever of the parallel searches fail (a rejected fetch, a status that is
\* not OK, a timeout, a body that is no JSON), handleQuery returns a consolidated
\* result whose sources are exactly the results of the searches that succeeded, one
\* inference chain for each; when every search failed the answer is the fixed
\* sentence "No external info found."
C14_BuiltFromSucceeded ==
    Aggregated =>
        /\ Len(consolidated.sources) = Cardinality(Succeeded)
        /\ {consolidated.sources[i].source : i \in DOMAIN consolidated.sources} = Succeeded
        /\ \A i \in DOMAIN consolidated.sources :
               consolidated.sources[i] = calls[consolidated.sources[i].source].value
        /\ Len(consolidated.inferenceChains) = Cardinality(Succeeded)
        /\ consolidated.answer # <<>>
        /\ (Succeeded = {}) <=> (consolidated.answer = NoExternalInfo)

\* three providers were selected, one search failed, two succeeded
C14_OneOfThreeFailed ==
    /\ Aggregated
    /\ Len(apis) = 3
    /\ Cardinality(Succeeded) = 2

\* C15: every handleQuery that has begun returns, however the providers behave
C15_HandleQueryReturns == (apc \in {"probing", "searching"}) ~> (apc = "returned")

\* the remembered handleQuery had the same query and the same outcome of every search
SameOutcomes ==
    /\ aprev.valid
    /\ aprev.query = aquery
    /\ aprev.apis = apis
    /\ \A api \in Providers : aprev.calls[api].value = calls[api].value

\* C16: two runs of handleQuery with the same query in which the same searches
\* succeeded with the same data return the same sources, inference chains and answer,
\* in whatever order the searches completed
C16_CompletionOrderIrrelevant ==
    (Aggregated /\ SameOutcomes) => consolidated = aprev.consolidated

\* two searches succeeded in both runs and completed in the opposite order
C16_OppositeOrders ==
    /\ Aggregated /\ SameOutcomes
    /\ Len(consolidated.sources) >= 2
    /\ \E a \in Succeeded : \E b \in Succeeded :
           \E i \in DOMAIN settled : \E j \in DOMAIN settled :
           \E k \in DOMAIN aprev.settled : \E l \in DOMAIN aprev.settled :
               /\ settled[i] = a /\ settled[j] = b /\ i < j
               /\ aprev.settled[k] = a /\ aprev.settled[l] = b /\ l < k


\* the providers the words of the query call for, in the order of selection; the
\* encyclopedia when no word calls for any
CalledFor ==
    LET lower == ToLowerCase(aquery)
        weather == MatchesAny(lower, WeatherWords)
        wiki == MatchesAny(lower, WikipediaWords)
        nasa == MatchesAny(lower, NasaWords)
    IN  (IF weather THEN <<"openweather">> ELSE <<>>)
        \o (IF wiki \/ (~weather /\ ~nasa) THEN <<"wikipedia">> ELSE <<>>)
        \o (IF nasa THEN <<"nasa">> ELSE <<>>)

\* the probes of this handleQuery are over
Probed == apc \in {"searching", "returned"}

\* C28: once the probes are over, handleQuery has returned the local fallback with no
\* search started exactly if no provider was available; otherwise the providers handed
\* to queryAPIs are those the words of the query call for, whatever the probe found,
\* a search was started for each of them and for no other
C28_FallbackIffNothingReachable ==
    Probed =>
        IF available = <<>>
        THEN /\ apc = "returned"
             /\ apis = <<>>
             /\ calls = NoCalls
             /\ settled = <<>>
             /\ consolidated = fallbackLocalKnowledge(aquery)
        ELSE /\ apis = CalledFor
             /\ apis # <<>>
             /\ \A api \in Providers : (calls[api].state # "none") <=> (api \in Range(apis))
             /\ apc = "returned" => consolidated # fallbackLocalKnowledge(aquery)

\* a provider whose probe failed is searched and a provider whose probe succeeded
\* is not
C28_SearchedThoughUnavailable ==
    /\ apc = "searching"
    /\ \E api \in Range(apis) : api \notin Range(available) /\ calls[api].state = "pending"
    /\ \E api \in Range(available) : api \notin Range(apis)

---------------------------------------------------------------------------
(* Claims about the walk of deepGraphTraversal *)

Expands ==
    /\ ~TraversalBegins
    /\ stack # <<>> /\ Top.pc = "enter"
    /\ Len(stack') = Len(stack) /\ stack'[Len(stack')].pc = "loop"

\* C18: within one call an entity is expanded only if it has no recorded depth or a
\* greater one, the expansion records its depth, nothing else changes a recorded depth,
\* so a recorded depth only decreases; and no entity under expansion is recorded at a
\* greater depth than that of its expansion
C18_ShallowestDepthRecorded ==
    /\ [][ /\ Expands =>
                  /\ Top.entity \in DOMAIN visited => Top.currentDepth < visited[Top.entity]
                  /\ visited'[Top.entity] = Top.currentDepth
           /\ ~TraversalBegins =>
                  \A e \in DOMAIN visited :
                      /\ e \in DOMAIN visited'
                      /\ visited'[e] <= visited[e]
                      /\ visited'[e] < visited[e] => (Expands /\ Top.entity = e) ]_vars
    /\ [](\A n \in DOMAIN stack :
              stack[n].pc = "loop" =>
                  /\ stack[n].entity \in DOMAIN visited
                  /\ visited[stack[n].entity] <= stack[n].currentDepth)

\* an entity was expanded twice (its relation was pushed twice), the second time at
\* a smaller depth, which is the depth recorded
C18_ExpandedAgainShallower ==
    /\ tpc = "done"
    /\ \E i \in DOMAIN path : \E j \in DOMAIN path :
           /\ i < j
           /\ path[i].source # "concept_graph"
           /\ TripleKey(path[i]) = TripleKey(path[j])
           /\ visited[path[i].subject] >= 1

\* C19: every triple is pushed for an entity under expansion, at a depth smaller than
\* maxDepth and with a path confidence not below minConfidence; the activation at
\* position n of the recursion has depth n - 1, so no chain of the walk has more than
\* maxDepth hops
C19_StopsAtDepthAndConfidence ==
    /\ [][ (path' # path /\ ~TraversalBegins) =>
               /\ stack # <<>> /\ Top.pc = "loop"
               /\ Top.currentDepth < maxDepth
               /\ Top.pathConfidence >= minConfidence * Pct
               /\ Len(path') > Len(path)
               /\ SubSeq(path', 1, Len(path)) = path
               /\ \A n \in (Len(path) + 1)..Len(path') : path'[n].subject = Top.entity ]_vars
    /\ [](\A n \in DOMAIN stack :
              /\ stack[n].currentDepth = n - 1
              /\ stack[n].currentDepth <= maxDepth
              /\ stack[n].pc = "loop" =>
                     /\ stack[n].currentDepth < maxDepth
                     /\ stack[n].pathConfidence >= minConfidence * Pct)
    /\ []((tpc = "done" /\ maxDepth = 0) => result = <<>>)

\* a branch is about to stop because its confidence decayed below the threshold, above
\* the depth limit, after triples were pushed
C19_BranchCutByConfidence ==
    /\ tpc = "run" /\ stack # <<>> /\ Top.pc = "enter"
    /\ Top.currentDepth < maxDepth
    /\ Top.pathConfidence < minConfidence * Pct
    /\ path # <<>>

\* this step pushes the triple of a graph edge and calls traverse() on its target
FollowsEdge ==
    /\ ~TraversalBegins
    /\ stack # <<>>
    /\ Len(stack') = Len(stack) + 1

\* C20: the confidence of a pushed edge is the path confidence of its subject times
\* the confidence of the edge in the graph; the path confidence of the call on its
\* target is that product times 0.9; a seed is called with 1.0; along the recursion
\* the path confidence never increases
C20_ConfidenceProductAndDecay ==
    /\ [][ FollowsEdge =>
               LET triple == path'[Len(path')]
                   child == stack'[Len(stack')]
               IN  /\ Len(path') = Len(path) + 1
                   /\ triple.subject = Top.entity
                   /\ \E i \in DOMAIN RelationsOf(graph, Top.entity) :
                          LET rel == RelationsOf(graph, Top.entity)[i]
                          IN  /\ rel.target = triple.object
                              /\ rel.predicate = triple.predicate
                              /\ triple.confidence = (Top.pathConfidence * rel.confidence) \div 100
                   /\ child.entity = triple.object
                   /\ child.pathConfidence = (triple.confidence * 9) \div 10
                   /\ triple.confidence <= Top.pathConfidence
                   /\ child.pathConfidence <= triple.confidence ]_vars
    /\ [](\A n \in DOMAIN stack :
              /\ n = 1 => stack[n].pathConfidence = Unit
              /\ n > 1 => stack[n].pathConfidence <= stack[n - 1].pathConfidence)

\* a chain of two edges with confidences below 1: three nested calls, each with a
\* smaller path confidence than the one before
C20_TwoHopsDecayed ==
    /\ Len(stack) >= 3
    /\ stack[2].pathConfidence < Unit
    /\ stack[3].pathConfidence < stack[2].pathConfidence
    /\ stack[3].pathConfidence * 100 < stack[2].pathConfidence * 90

---------------------------------------------------------------------------
(* Claims about the ranking and the cuts of deepGraphTraversal *)

Score(x) == x.weight * x.confidence

\* the outgoing edges of an entity in the relationship graph
OutEdges(entity) == IF HasKey(graph, entity) THEN RelationsOf(graph, entity) ELSE <<>>

\* C21: the edges explored at an expanded node are edges of the node with confidence
\* >= minConfidence, as many as there are such edges up to 5, in non-increasing order
\* of weight*confidence, and no such edge left out ranks above an explored one; the
\* loop pushes and follows them one by one in that order and ends after the last;
\* every pushed graph edge has a confidence of its own >= minConfidence
C21_BestFiveAboveThreshold ==
    /\ [](\A n \in DOMAIN stack :
              stack[n].pc = "loop" =>
                  LET sr == stack[n].sortedRelations
                      all == OutEdges(stack[n].entity)
                      qual == {i \in DOMAIN all : all[i].confidence >= minConfidence}
                  IN  /\ Len(sr) = (IF Cardinality(qual) < 5 THEN Cardinality(qual) ELSE 5)
                      /\ \A k \in DOMAIN sr : \E i \in qual : all[i] = sr[k]
                      /\ \A k \in DOMAIN sr : \A m \in DOMAIN sr : k # m => sr[k] # sr[m]
                      /\ \A k \in DOMAIN sr : \A m \in DOMAIN sr :
                             k < m => Score(sr[k]) >= Score(sr[m])
                      /\ \A i \in qual :
                             (\A k \in DOMAIN sr : sr[k] # all[i]) =>
                                 \A k \in DOMAIN sr : Score(all[i]) <= Score(sr[k]))
    /\ [](\A j \in DOMAIN path :
              path[j].source # "concept_graph" =>
                  \E i \in DOMAIN OutEdges(path[j].subject) :
                      LET rel == OutEdges(path[j].subject)[i]
                      IN  /\ rel.target = path[j].object
                          /\ rel.predicate = path[j].predicate
                          /\ rel.confidence >= minConfidence)
    /\ [][ /\ FollowsEdge =>
                  LET relation == Top.sortedRelations[Top.idx]
                      triple == path'[Len(path')]
                  IN  /\ Top.pc = "loop"
                      /\ triple.subject = Top.entity
                      /\ triple.object = relation.target
                      /\ triple.predicate = relation.predicate
                      /\ triple.weight = relation.weight
                      /\ stack'[Len(stack')].entity = relation.target
                      /\ stack'[Len(stack)].idx = Top.idx + 1
                      /\ stack'[Len(stack)].sortedRelations = Top.sortedRelations
           /\ (stack # <<>> /\ Top.pc = "loop" /\ Len(stack') < Len(stack)) =>
                  Top.idx = Len(Top.sortedRelations) + 1 ]_vars

\* the hub of Star under threshold 0.8: seven edges, one below the threshold, six
\* qualifying, five explored
C21_HubCutAndFiltered ==
    /\ graph = Star /\ minConfidence = 80
    /\ Len(stack) = 1 /\ Top.entity = N_H /\ Top.pc = "loop"
    /\ Top.idx = 6
    /\ Cardinality({j \in DOMAIN path : path[j].subject = N_H}) = 5

\* the keys of the triples of a list
KeysOf(p) == {TripleKey(p[j]) : j \in DOMAIN p}

\* C22: the returned list is in non-increasing order of weight*confidence and has
\* min(12, number of distinct triples found) entries, each of them found by the walk;
\* a found triple that is not returned does not rank above any returned one
C22_RankedAndCapped ==
    tpc = "done" =>
        /\ Len(result) <= 12
        /\ Len(result) = (IF Cardinality(KeysOf(path)) < 12
                          THEN Cardinality(KeysOf(path)) ELSE 12)
        /\ \A i \in DOMAIN result : \E j \in DOMAIN path : path[j] = result[i]
        /\ \A i \in DOMAIN result : \A k \in DOMAIN result :
               i < k => Score(result[i]) >= Score(result[k])
        /\ \A j \in DOMAIN path :
               (/\ TripleKey(path[j]) \notin KeysOf(result)
                /\ \A k \in (j + 1)..Len(path) : TripleKey(path[k]) # TripleKey(path[j]))
               => \A i \in DOMAIN result : Score(path[j]) <= Score(result[i])

\* more than twelve distinct triples were found and twelve are returned
C22_MoreThanTwelveFound ==
    /\ tpc = "done"
    /\ Cardinality(KeysOf(path)) > 12
    /\ Len(result) = 12

LeavesLoop ==
    /\ ~TraversalBegins
    /\ stack # <<>> /\ Top.pc = "loop"
    /\ Len(stack') < Len(stack)

ConceptPredicate ==
    <<"c","o","n","c","e","p","t","u","a","l","l","y","_","r","e","l","a","t","e","d","_","t","o">>

\* C26: at the end of the expansion of an entity the walk pushes one triple
\* 'conceptually_related_to' for each of the first three concept-graph neighbours of
\* the entity that has no recorded depth or one greater than currentDepth + 1, in their
\* order, with weight 0.6 and confidence pathConfidence * 0.8, whatever minConfidence
\* is; no other step pushes such a triple
C26_ConceptTriplesUnfiltered ==
    /\ [][ /\ LeavesLoop =>
                  LET added == SubSeq(path', Len(path) + 1, Len(path'))
                      nbrs == IF Top.entity \in DOMAIN conceptGraph
                              THEN conceptGraph[Top.entity] ELSE <<>>
                      eligible == {k \in DOMAIN nbrs :
                                      /\ k <= 3
                                      /\ \/ nbrs[k] \notin DOMAIN visited
                                         \/ visited[nbrs[k]] > Top.currentDepth + 1}
                  IN  /\ SubSeq(path', 1, Len(path)) = path
                      /\ Len(added) = Cardinality(eligible)
                      /\ Len(added) <= 3
                      /\ \A n \in DOMAIN added :
                             /\ added[n].subject = Top.entity
                             /\ added[n].predicate = ConceptPredicate
                             /\ added[n].object = nbrs[Ascending(eligible)[n]]
                             /\ added[n].weight = 60
                             /\ added[n].confidence = (Top.pathConfidence * 8) \div 10
                             /\ added[n].source = "concept_graph"
           /\ (~LeavesLoop /\ ~TraversalBegins) =>
                  \A n \in DOMAIN path' :
                      (n > Len(path) /\ n <= Len(path')) => path'[n].source # "concept_graph"
         ]_vars
    /\ [](\A n \in DOMAIN result :
              result[n].source = "concept_graph" =>
                  /\ result[n].predicate = ConceptPredicate
                  /\ result[n].weight = 60)

\* under the stricter of two thresholds the call returns a concept triple with a
\* confidence below the threshold, which the call under the lower threshold did not
\* return because its object had been visited there
C26_BelowThresholdReturned ==
    /\ tpc = "done" /\ prev.valid /\ prev.input < minConfidence
    /\ \E i \in DOMAIN result :
           /\ result[i].source = "concept_graph"
           /\ result[i].confidence < minConfidence * Pct
           /\ TripleKey(result[i]) \notin KeysOf(prev.output)

---------------------------------------------------------------------------
(* Claims about the relationships the answer renders *)

\* the places in graphPath of the paths with confidence above 0.8
AboveHigh == {n \in DOMAIN graphPath : graphPath[n].confidence > 80 * Pct}

\* the first three of them
FirstThreeAbove == {n \in AboveHigh : Cardinality({m \in AboveHigh : m < n}) < 3}

\* "subject predicate object" of a path, the predicate in lowercase words
Rendering(n) ==
    graphPath[n].subject \o <<" ">> \o RenderPredicate(graphPath[n].predicate)
    \o <<" ">> \o graphPath[n].object

\* C24: when no path of the traversal has a confidence above 0.8 the answer has no
\* relationships sentence; otherwise it has that sentence with the first three (or
\* fewer) of the paths above 0.8, in the order of the traversal's ranking, and with no
\* other path
C24_RelationshipsAboveThreshold ==
    (Returned /\ ~(docs = <<>> /\ graphPath = <<>>)) =>
        IF AboveHigh = {}
        THEN ~Includes(answer, RelationshipsHead)
        ELSE LET order == Ascending(FirstThreeAbove)
             IN  /\ Len(order) <= 3
                 /\ Includes(answer,
                        RelationshipsHead
                        \o Join([k \in DOMAIN order |-> Rendering(order[k])], <<";", " ">>)
                        \o Period)
                 /\ \A n \in DOMAIN graphPath :
                        (\A m \in FirstThreeAbove : Rendering(m) # Rendering(n)) =>
                            ~Includes(answer, Rendering(n))

\* more than three paths are above 0.8, another is not, and the sentence is there
C24_ThreeOfManyRendered ==
    /\ Returned
    /\ Cardinality(AboveHigh) > 3
    /\ \E n \in DOMAIN graphPath : n \notin AboveHigh
    /\ Includes(answer, RelationshipsHead)

---------------------------------------------------------------------------
(* Claims about the text the rules are tested on *)

\* the query, a space, and the previews of the retrieved documents joined by spaces,
\* in lowercase
PreviewText ==
    ToLowerCase(question.value \o <<" ">>
                \o Join([n \in DOMAIN docs |-> Preview(DocOf(docs[n]))], <<" ">>))

\* the same with the whole bodies of the documents
BodyText ==
    ToLowerCase(question.value \o <<" ">>
                \o Join([n \in DOMAIN docs |-> DocOf(docs[n]).content], <<" ">>))

FiredRule(i) == \E n \in DOMAIN rulesFired : rulesFired[n] = advancedRules[i].name

\* C25 (as stated): the pattern of every rule that fired matches the query text
\* joined with the previews of the retrieved documents
C25_PatternsTestedOnPreviews ==
    RulesEvaluated =>
        \A i \in DOMAIN advancedRules :
            FiredRule(i) => PatternTest(advancedRules[i], PreviewText)

\* C25 (as amended): a rule whose condition holds fires exactly if its pattern matches
\* the query text joined with the whole bodies of the retrieved documents, in
\* lowercase; no rule fires without that match
C25_PatternsTestedOnBodies ==
    RulesEvaluated =>
        \A i \in DOMAIN advancedRules :
            /\ FiredRule(i) => PatternTest(advancedRules[i], BodyText)
            /\ Trigger(advancedRules[i], docs, entities) =>
                   (FiredRule(i) <=> PatternTest(advancedRules[i], BodyText))

\* a rule fired on text that stands only beyond the preview of a document
C25_FiredOnTextBeyondPreview ==
    /\ RulesEvaluated
    /\ \E i \in DOMAIN advancedRules :
           /\ FiredRule(i)
           /\ ~PatternTest(advancedRules[i], PreviewText)

---------------------------------------------------------------------------
(* Claims about the options of query *)

\* the value query() works with for an option: the default when the option is absent
\* or 0, the option otherwise
Effective(name, dflt) ==
    IF name \in DOMAIN options /\ options[name] # 0 THEN options[name] ELSE dflt

\* the documents above the relevance floor for the question, however many
AllAboveFloor == multiAlgorithmSearch(question.value, Len(comprehensiveKnowledgeBase))

RememberedDefaultCall ==
    prev.valid /\ prev.input = [question |-> question, options |-> EmptyOptions]

\* C27 (as stated): through the options no caller obtains zero documents where some
\* document is above the floor, a traversal of zero hops, or a traversal without a
\* positive threshold
C27_NeverZeroThroughOptions ==
    /\ (Returned /\ AllAboveFloor # <<>>) => docs # <<>>
    /\ qpc = "traversing" => (maxDepth >= 1 /\ minConfidence >= 1)

\* C27 (as amended): an option that is absent or 0 is replaced by its default 8, 4 or
\* 0.7, and a call whose options are all 0 returns what the call without options
\* returns; every other value, negative ones included, is used as given: the documents
\* are the ranking cut by slice(0, topK), the traversal runs with that maxDepth and
\* minConfidence
C27_ZeroOptionsDefaulted ==
    /\ Returned =>
           LET topK == Effective("topK", 8)
               n == Len(AllAboveFloor)
           IN  /\ Len(docs) = (IF topK >= 0 THEN (IF topK < n THEN topK ELSE n)
                               ELSE (IF n + topK > 0 THEN n + topK ELSE 0))
               /\ docs = SubSeq(AllAboveFloor, 1, Len(docs))
    /\ qpc = "traversing" =>
           /\ maxDepth = Effective("maxDepth", 4)
           /\ minConfidence = Effective("minConfidence", 70)
    /\ (Returned /\ RememberedDefaultCall /\ options = ZeroOptions) =>
           QueryResult = prev.output

\* a call with every option 0 returned documents and paths, as the remembered call
\* without options did
C27_ZeroOptionsServed ==
    /\ Returned /\ RememberedDefaultCall /\ options = ZeroOptions
    /\ docs # <<>>
    /\ graphPath # <<>>

---------------------------------------------------------------------------
(* Claims about the fact checker of the web search *)

\* C29: verifyClaim records no disputing source whatever the claim and the results
\* are: a result that supports the claim is taken by the first branch, and a result
\* that does not support it cannot pass claimDisputed, which requires the support
\* again.  So every verdict is 'verified' or 'unverified', the sources of a verdict
\* are its supporting sources, and the answer never carries the note on disputed
\* information.
C29_NeverDisputed ==
    /\ disputingSources = <<>>
    /\ \A i \in DOMAIN factCheck :
          /\ factCheck[i].verdict \in {"verified", "unverified"}
          /\ factCheck[i].verdict = "verified" <=> Len(factCheck[i].sources) >= VerifiedMinimum
    /\ \A i \in DOMAIN synthesizedAnswer : synthesizedAnswer[i].kind # "Note: disputed"

\* a search has returned in which, for one claim, one inspected snippet contradicts
\* and supports it and another contradicts it without supporting it
C29_ContradictedYetNotDisputed ==
    /\ wpc = "done"
    /\ synthesizedAnswer # <<>>
    /\ \E i \in DOMAIN factCheck :
          \E j, k \in DOMAIN Inspected(uniqueResults) :
              /\ claimContradicted(factCheck[i].claim, uniqueResults[j].snippet)
              /\ claimSupported(factCheck[i].claim, uniqueResults[j].snippet)
              /\ claimContradicted(factCheck[i].claim, uniqueResults[k].snippet)
              /\ ~claimSupported(factCheck[i].claim, uniqueResults[k].snippet)

---------------------------------------------------------------------------
(* Claims about the conversation flow *)

PhaseRank == [greeting |-> 1, exploring |-> 2, deep_dive |-> 3, clarifying |-> 4,
              concluding |-> 5]

\* the calls of a conversation that are suspended
Suspended(key) == {n \in DOMAIN inFlight : inFlight[n].key = key}

\* the context object the map holds for a conversation
Stored(key) == contexts[conversationMemory[key]]

\* C30: over the calls of generateResponse on one conversation the phase returned
\* only moves forward along greeting, exploring, deep_dive, clarifying: it never
\* comes back to 'greeting', stays 'clarifying' once there and is never
\* 'concluding'; and every call has appended exactly one user message, so that the
\* stored history holds as many messages as calls have returned.
C30_PhaseMovesForward ==
    \A key \in SessionKeys :
        /\ \A i \in 1..(Len(replies[key]) - 1) :
              /\ PhaseRank[replies[key][i]] <= PhaseRank[replies[key][i + 1]]
              /\ replies[key][i] = "clarifying" => replies[key][i + 1] = "clarifying"
        /\ \A i \in DOMAIN replies[key] : replies[key][i] # "concluding"
        /\ (Suspended(key) = {} /\ conversationMemory[key] # 0)
              => /\ Len(Stored(key).conversationHistory) = Len(replies[key])
                 /\ \A i \in DOMAIN Stored(key).conversationHistory :
                       Stored(key).conversationHistory[i].role = "user"

====
